---------------------------- MODULE Spec2Model ----------------------------
(***************************************************************************)
(* A model of the overlay delivery / download logic of pynqutils           *)
(* (setup_utils/deliver_notebooks.py and setup_utils/download_overlays.py),*)
(* of its setuptools commands build_py and download_overlays, of the Xsa   *)
(* archive reader (build_utils/xsa_parser.py), of                          *)
(* resolve_version (build_utils/boardstore.py), of the logger              *)
(* (runtime/logging.py) and of run_notebook (runtime/run_notebook.py).     *)
(*                                                                         *)
(* A file name is the sequence of its dot-separated components             *)
(* ("a.bit.link" is <<"a", "bit", "link">>), a path is the sequence of the *)
(* names on it, and the file system is a function from the existing paths  *)
(* to their nodes.  The root <<>> always exists: it is "/" when the caller *)
(* names paths absolutely and the current directory when the caller names  *)
(* them relatively.                                                        *)
(***************************************************************************)
EXTENDS Integers, Sequences, FiniteSets, TLC

VARIABLES
    fs,              \* the file system: path -> node
    fs0,             \* the file system when the operation was called
    path_created,    \* distutils.dir_util._path_created: mkpath's cache
    ntmp,            \* number of files tempfile.mkstemp has created
    fetched,         \* the urls urllib.request.urlopen was called with, in order
    env,             \* the machine: relative paths, cpu, what xbutil reports
    args,            \* the arguments of the call
    pc,              \* where the call is: "detect", "walk", "rollback", "returned", "raised"
    exc,             \* the exception the call ended with ("" when none)
    walkq,           \* os.walk: the directories still to visit, top-down
    files_to_copy,   \* deliver_notebooks: ordered dict src -> dst, as a sequence of pairs
    files_to_move,   \* deliver_notebooks: ordered dict tmp file -> dst
    skipped,         \* deliver_notebooks: folders skipped on OverlayNotFoundError
    net,             \* what each url answered: url -> "ok" | "corrupt" | "down"
    cleanup_list,    \* download_overlays: the .link files to delete at the end
    devices,         \* download_overlays: what detect_devices returned
    ret,             \* what a helper called on its own returned
    xsa,             \* build_utils.xsa_parser: the Xsa object and its temporary directory
    logger,          \* runtime.logging: the logger of logging.getLogger(__name__)
    notebook,        \* runtime.run_notebook: the notebook, the kernel and the cell to run
    dist             \* setuptools: the Distribution, its commands and what they have done

vars == <<fs, fs0, path_created, ntmp, fetched, env, args, pc, exc, walkq,
          files_to_copy, files_to_move, skipped, net, cleanup_list, devices,
          ret, xsa, logger, notebook, dist>>
\* the state outside the helpers of setup_utils
others == <<ret, xsa, logger, notebook, dist>>
\* nothing is in play outside setup_utils
NoOthers ==
    ret = <<>> /\ xsa = <<>> /\ logger = <<>> /\ notebook = <<>> /\ dist = <<>>

(***************************************************************************)
(* Bounds of the model.                                                    *)
(***************************************************************************)
Depth == 3          \* folders of the source tree, nested in one another
MaxDevices == 2     \* devices xbutil reports at most

Devices == {"d1", "d2"}
Resources == {"a", "b"}

(***************************************************************************)
(* Names and paths (os.path).                                              *)
(***************************************************************************)
Last(s) == s[Len(s)]
Front(s) == SubSeq(s, 1, Len(s) - 1)

\* str.endswith("." + ext)
EndsWith(name, ext) == Len(name) >= 2 /\ Last(name) = ext

\* os.path.splitext: the name without its last extension, and that extension
SplitExt(name) ==
    IF Len(name) >= 2 THEN <<Front(name), <<Last(name)>>>> ELSE <<name, <<>>>>

\* "{}.{}{}".format(split[0], device, split[1])
DeviceFileName(filename, device) ==
    SplitExt(filename)[1] \o <<device>> \o SplitExt(filename)[2]

\* os.path.join(path, name) and os.path.dirname(path)
Join(path, name) == Append(path, name)
DirName(path) == IF path = <<>> THEN <<>> ELSE Front(path)
BaseName(path) == Last(path)
IsPrefix(p, q) == Len(p) <= Len(q) /\ \A i \in 1..Len(p) : q[i] = p[i]

\* os.path.relpath(root, src_path), with "." turned into ""
RelPath(root, src_path) == SubSeq(root, Len(src_path) + 1, Len(root))

(***************************************************************************)
(* The file system (os, shutil, distutils).  An operation that can fail    *)
(* returns a record with an "err" field, "" when it succeeded.             *)
(***************************************************************************)
DirNode == [kind |-> "dir", data |-> ""]
FileNode(data) == [kind |-> "file", data |-> data]

Exists(f, p) == p = <<>> \/ p \in DOMAIN f
IsFile(f, p) == p \in DOMAIN f /\ f[p].kind = "file"
IsDir(f, p) == p = <<>> \/ (p \in DOMAIN f /\ f[p].kind = "dir")
Children(f, p) == {q \in DOMAIN f : Len(q) = Len(p) + 1 /\ \A i \in 1..Len(p) : q[i] = p[i]}
Under(f, p) == {q \in DOMAIN f : IsPrefix(p, q)}
Put(f, p, node) == [q \in DOMAIN f \cup {p} |-> IF q = p THEN node ELSE f[q]]
Del(f, ps) == [q \in DOMAIN f \ ps |-> f[q]]

\* os.remove, os.rmdir
Remove(f, p) == Del(f, {p})

\* A fixed order on a finite set: the order os.scandir lists a directory in
RECURSIVE SetToSeq(_)
SetToSeq(S) ==
    IF S = {} THEN <<>>
    ELSE LET x == CHOOSE y \in S : \A z \in S : Len(y) <= Len(z)
         IN  <<x>> \o SetToSeq(S \ {x})


(***************************************************************************)
(* distutils.dir_util.mkpath.  It remembers every directory it has created *)
(* in _path_created and never creates a remembered directory again, also   *)
(* when the directory has been removed since.                              *)
(***************************************************************************)
Res(f, cache, err) == [fs |-> f, cache |-> cache, err |-> err]

\* the deepest proper ancestor of p that is a directory, as a prefix length
DeepestDir(f, p) ==
    CHOOSE k \in 0..(Len(p) - 1) :
        /\ IsDir(f, SubSeq(p, 1, k))
        /\ \A j \in (k + 1)..(Len(p) - 1) : ~IsDir(f, SubSeq(p, 1, j))

RECURSIVE MkPathFrom(_, _, _, _)
\* the loop "for d in tails": the missing directories, the highest first
MkPathFrom(f, cache, p, k) ==
    IF k = Len(p) THEN Res(f, cache, "")
    ELSE LET head == SubSeq(p, 1, k + 1)
         IN  IF head \in cache THEN MkPathFrom(f, cache, p, k + 1)
             ELSE IF ~IsDir(f, DirName(head)) \/ Exists(f, head)
                  THEN Res(f, cache, "DistutilsFileError")
                  ELSE MkPathFrom(Put(f, head, DirNode), cache \cup {head}, p, k + 1)

MkPath(f, cache, p) ==
    IF IsDir(f, p) THEN Res(f, cache, "")
    ELSE IF p \in cache THEN Res(f, cache, "")
    ELSE MkPathFrom(f, cache, p, DeepestDir(f, p))

\* distutils.file_util.copy_file: into dst when dst is a directory
CopyFile(f, src, dst) ==
    LET to == IF IsDir(f, dst) THEN Join(dst, BaseName(src)) ELSE dst
    IN  IF ~IsFile(f, src) \/ IsDir(f, to) \/ ~IsDir(f, DirName(to))
        THEN [fs |-> f, err |-> "DistutilsFileError"]
        ELSE [fs |-> Put(f, to, FileNode(f[src].data)), err |-> ""]

\* distutils.dir_util.copy_tree
RECURSIVE CopyTree(_, _, _, _), CopyNames(_, _, _, _, _)
CopyNames(f, cache, src, dst, names) ==
    IF names = <<>> THEN Res(f, cache, "")
    ELSE LET s == Head(names)
             d == Join(dst, BaseName(s))
             c == CopyFile(f, s, d)
             r == IF IsDir(f, s) THEN CopyTree(f, cache, s, d)
                  ELSE Res(c.fs, cache, c.err)
         IN  IF r.err # "" THEN r
             ELSE CopyNames(r.fs, r.cache, src, dst, Tail(names))
CopyTree(f, cache, src, dst) ==
    IF ~IsDir(f, src) THEN Res(f, cache, "DistutilsFileError")
    ELSE LET names == SetToSeq(Children(f, src))
             m == MkPath(f, cache, dst)
         IN  IF m.err # "" THEN m
             ELSE CopyNames(m.fs, m.cache, src, dst, names)

\* shutil.move of a file
Move(f, src, dst) ==
    LET to == IF IsDir(f, dst) THEN Join(dst, BaseName(src)) ELSE dst
    IN  IF (IsDir(f, dst) /\ Exists(f, to)) \/ ~IsDir(f, DirName(to))
        THEN [fs |-> f, err |-> "MoveError"]
        ELSE [fs |-> Put(Remove(f, src), to, f[src]), err |-> ""]

\* distutils.dir_util.remove_tree: errors are ignored, the cache forgets
RemoveTree(f, cache, p) ==
    Res(Del(f, Under(f, p)), cache \ Under(f, p), "")

(***************************************************************************)
(* The content of files.  A .link file holds a JSON object: either url and *)
(* md5sum at the top level, or one entry {url, md5sum} per device name, or *)
(* both.  A file's data is a string; json.load is the table JsonLoad.      *)
(***************************************************************************)
Payload(url) == "data:" \o url         \* what the server of url holds
Garbage == "garbage"                   \* a corrupted download
MD5(data) == "md5(" \o data \o ")"     \* hashlib.md5(data).hexdigest()

LinkKinds == [global : BOOLEAN, devs : SUBSET Devices]
DevsTag(S) ==
    IF S = {} THEN "" ELSE IF S = {"d1"} THEN ",d1"
    ELSE IF S = {"d2"} THEN ",d2" ELSE ",d1,d2"
Url(r, key) == "http://" \o r \o "/" \o key
Entry(r, key) == [url |-> Url(r, key), md5sum |-> MD5(Payload(Url(r, key)))]
\* the text of the .link file of resource r
LinkText(r, kind) ==
    r \o ":{" \o (IF kind.global THEN "url,md5sum" ELSE "") \o DevsTag(kind.devs) \o "}"
\* the JSON object that text denotes
LinkJson(r, kind) ==
    [k \in (IF kind.global THEN {"url", "md5sum"} ELSE {}) \cup kind.devs |->
        IF k = "url" THEN Entry(r, "global").url
        ELSE IF k = "md5sum" THEN Entry(r, "global").md5sum
        ELSE Entry(r, k)]
\* the keys of the object in the order of the file
LinkKeys(kind) ==
    (IF kind.global THEN <<"url", "md5sum">> ELSE <<>>)
    \o (IF "d1" \in kind.devs THEN <<"d1">> ELSE <<>>)
    \o (IF "d2" \in kind.devs THEN <<"d2">> ELSE <<>>)
LinkTexts == {LinkText(x[1], x[2]) : x \in Resources \X LinkKinds}
LinkOf(text) == CHOOSE x \in Resources \X LinkKinds : LinkText(x[1], x[2]) = text
JsonTable == [text \in LinkTexts |-> LinkJson(LinkOf(text)[1], LinkOf(text)[2])]
KeysTable == [text \in LinkTexts |-> LinkKeys(LinkOf(text)[2])]
\* json.load
JsonLoad(text) == JsonTable[text]
\* the keys of the loaded object in the order of the file: links.items()
JsonKeys(text) == KeysTable[text]


(***************************************************************************)
(* Ordered dicts (files_to_copy, files_to_move): sequences of <<key, value>>*)
(***************************************************************************)
Keys(d) == {d[i][1] : i \in 1..Len(d)}
Values(d) == {d[i][2] : i \in 1..Len(d)}
\* d[key] = value: a new key goes last, a known key keeps its place
DictSet(d, key, value) ==
    IF key \in Keys(d)
    THEN [i \in 1..Len(d) |-> IF d[i][1] = key THEN <<key, value>> ELSE d[i]]
    ELSE Append(d, <<key, value>>)
\* d.pop(key) for a key that may be missing
DictPop(d, key) == SelectSeq(d, LAMBDA kv : kv[1] # key)
RECURSIVE DictUpdate(_, _)
\* d.update(other)
DictUpdate(d, other) ==
    IF other = <<>> THEN d
    ELSE DictUpdate(DictSet(d, Head(other)[1], Head(other)[2]), Tail(other))

(***************************************************************************)
(* What the helpers below thread through: the file system, mkpath's cache, *)
(* the temporary files made, the urls fetched and what they answered, and  *)
(* the exception raised ("" when none).                                    *)
(***************************************************************************)
Machine(f, cache, n, fetch, answers) ==
    [fs |-> f, cache |-> cache, ntmp |-> n, fetched |-> fetch, net |-> answers,
     err |-> ""]

Outcomes == {"ok", "corrupt", "down"}
TmpDir == <<<<"tmp">>>>
\* tempfile.mkstemp()[1]: the n-th temporary file
TmpFile(n) == Join(TmpDir, <<"t" \o ToString(n)>>)

None == <<<<>>>>                          \* no path
NoEntry == [url |-> "", md5sum |-> ""]    \* no download dict
NoDevice == "None"                        \* device_name=None

\* _download_file without the checksum comparison
DownloadFileUnchecked(m, oc, download_link, path, md5sum) ==
    LET tmp_file == TmpFile(m.ntmp + 1)
        data == IF oc[download_link] = "ok" THEN Payload(download_link) ELSE Garbage
        m1 == [m EXCEPT !.fs = Put(m.fs, tmp_file, FileNode(data)),
                        !.ntmp = @ + 1,
                        !.fetched = Append(@, download_link),
                        !.net = (download_link :> oc[download_link]) @@ @]
        c == CopyFile(m1.fs, tmp_file, path)
    IN  IF oc[download_link] = "down" THEN [m1 EXCEPT !.err = "URLError"]
        ELSE [m1 EXCEPT !.fs = c.fs, !.err = c.err]

\* deliver_notebooks._download_file(download_link, path, md5sum), unpack unset;
\* oc is what the servers answer
DownloadFile(m, oc, download_link, path, md5sum) ==
    LET tmp_file == TmpFile(m.ntmp + 1)
        data == IF oc[download_link] = "ok" THEN Payload(download_link) ELSE Garbage
        m1 == [m EXCEPT !.fs = Put(m.fs, tmp_file, FileNode("")),
                        !.ntmp = @ + 1,
                        !.fetched = Append(@, download_link),
                        !.net = (download_link :> oc[download_link]) @@ @]
        m2 == [m1 EXCEPT !.fs = Put(m1.fs, tmp_file, FileNode(data))]
    IN  IF oc[download_link] = "down" THEN [m1 EXCEPT !.err = "URLError"]
        ELSE IF md5sum # "" /\ md5sum # MD5(data)
        THEN [m2 EXCEPT !.fs = Remove(m2.fs, tmp_file),
                        !.err = "DownloadedFileChecksumError"]
        ELSE LET c == CopyFile(m2.fs, tmp_file, path)
             IN  [m2 EXCEPT !.fs = c.fs, !.err = c.err]

\* _find_local_overlay_res looking into the .d folder first
FindLocalDeviceFirst(f, device_name, overlay_res_filename, src_path) ==
    LET overlay_res_path == Join(src_path, overlay_res_filename)
        in_d == Join(Join(src_path, Append(overlay_res_filename, "d")),
                     DeviceFileName(overlay_res_filename, device_name))
    IN  IF IsFile(f, in_d) THEN in_d
        ELSE IF IsFile(f, overlay_res_path) THEN overlay_res_path
        ELSE None

\* _find_local_overlay_res never looking into the .d folder
FindLocalPlainOnly(f, device_name, overlay_res_filename, src_path) ==
    LET overlay_res_path == Join(src_path, overlay_res_filename)
    IN  IF IsFile(f, overlay_res_path) THEN overlay_res_path ELSE None

\* deliver_notebooks._find_local_overlay_res
FindLocalOverlayRes(f, device_name, overlay_res_filename, src_path) ==
    LET overlay_res_path == Join(src_path, overlay_res_filename)
        in_d == Join(Join(src_path, Append(overlay_res_filename, "d")),
                     DeviceFileName(overlay_res_filename, device_name))
    IN  IF IsFile(f, overlay_res_path) THEN overlay_res_path
        ELSE IF IsFile(f, in_d) THEN in_d
        ELSE None

\* _find_remote_overlay_res looking for the entry of the device first
FindRemoteDeviceFirst(f, device_name, links_json_path) ==
    LET links == JsonLoad(f[links_json_path].data)
    IN  IF device_name \in DOMAIN links THEN links[device_name]
        ELSE IF "url" \in DOMAIN links /\ "md5sum" \in DOMAIN links
        THEN [url |-> links["url"], md5sum |-> links["md5sum"]]
        ELSE NoEntry

\* deliver_notebooks._find_remote_overlay_res
FindRemoteOverlayRes(f, device_name, links_json_path) ==
    LET links == JsonLoad(f[links_json_path].data)
    IN  IF "url" \in DOMAIN links /\ "md5sum" \in DOMAIN links
        THEN [url |-> links["url"], md5sum |-> links["md5sum"]]
        ELSE IF device_name \in DOMAIN links THEN links[device_name]
        ELSE NoEntry


(***************************************************************************)
(* deliver_notebooks: the inspection of one folder.  r holds the machine   *)
(* state and the folder's files_to_copy_tmp and files_to_move_tmp.         *)
(***************************************************************************)
\* deliver_notebooks._resolve_overlay_res_from_folder
ResolveOverlayResFromFolder(r, device_name, overlay_res_folder, src_path, dst_path, rel_path) ==
    LET overlay_res_filename == SplitExt(overlay_res_folder)[1]
        overlay_res_src_path ==
            FindLocalOverlayRes(r.m.fs, device_name, overlay_res_filename, src_path)
    IN  IF IsFile(r.m.fs, Join(src_path, Append(overlay_res_filename, "link")))
        THEN r
        ELSE IF overlay_res_src_path # None
        THEN [r EXCEPT !.copy = DictSet(@, overlay_res_src_path,
                                        Join(dst_path \o rel_path, overlay_res_filename))]
        ELSE [r EXCEPT !.m.err = "OverlayNotFoundError"]

\* deliver_notebooks._resolve_overlay_res_from_link
ResolveOverlayResFromLink(r, oc, device_name, overlay_res_link, src_path, dst_path, rel_path) ==
    LET overlay_res_filename == SplitExt(overlay_res_link)[1]
        overlay_res_dst_path == Join(dst_path \o rel_path, overlay_res_filename)
        overlay_res_src_path ==
            FindLocalOverlayRes(r.m.fs, device_name, overlay_res_filename, src_path)
        overlay_res_download_dict ==
            FindRemoteOverlayRes(r.m.fs, device_name, Join(src_path, overlay_res_link))
        tmp_file == TmpFile(r.m.ntmp + 1)
        m1 == [r.m EXCEPT !.fs = Put(@, tmp_file, FileNode("")), !.ntmp = @ + 1]
        m2 == DownloadFile(m1, oc, overlay_res_download_dict.url, tmp_file,
                           overlay_res_download_dict.md5sum)
    IN  IF overlay_res_src_path # None
        THEN [r EXCEPT !.copy = DictSet(@, overlay_res_src_path, overlay_res_dst_path)]
        ELSE IF overlay_res_download_dict # NoEntry
        THEN IF m2.err = ""
             THEN [r EXCEPT !.m = m2, !.move = DictSet(@, tmp_file, overlay_res_dst_path)]
             ELSE IF m2.err = "DownloadedFileChecksumError"
             THEN [r EXCEPT !.m = [m2 EXCEPT !.err = "OverlayNotFoundError"]]
             ELSE [r EXCEPT !.m = m2]
        ELSE [r EXCEPT !.m.err = "OverlayNotFoundError"]

\* dst_fullpath
DstFullPath == IF args.folder THEN Join(args.dst_path, args.name) ELSE args.dst_path

RECURSIVE InspectDirs(_, _, _, _)
\* "for d in dirs" of deliver_notebooks
InspectDirs(r, dirs, root, relpath) ==
    IF dirs = <<>> \/ r.m.err # "" THEN r
    ELSE LET d == Head(dirs)
             r1 == IF EndsWith(d, "d")
                   THEN IF args.overlays_res_lookup
                        THEN ResolveOverlayResFromFolder(r, args.device_name, d, root,
                                                         DstFullPath, relpath)
                        ELSE r
                   ELSE IF d # <<"__pycache__">>
                        THEN [r EXCEPT !.copy = DictSet(@, Join(root, d),
                                                        Join(DstFullPath \o relpath, d))]
                        ELSE r
         IN  InspectDirs(r1, Tail(dirs), root, relpath)

RECURSIVE InspectFiles(_, _, _, _, _)
\* "for f in files" of deliver_notebooks
InspectFiles(r, oc, files, root, relpath) ==
    IF files = <<>> \/ r.m.err # "" THEN r
    ELSE LET f == Head(files)
             r1 == IF EndsWith(f, "link")
                   THEN IF args.overlays_res_lookup
                        THEN ResolveOverlayResFromLink(r, oc, args.device_name, f, root,
                                                       DstFullPath, relpath)
                        ELSE r
                   ELSE [r EXCEPT !.copy = DictSet(@, Join(root, f),
                                                   Join(DstFullPath \o relpath, f))]
         IN  InspectFiles(r1, oc, Tail(files), root, relpath)

Reverse(s) == [i \in 1..Len(s) |-> s[Len(s) + 1 - i]]
Range(s) == {s[i] : i \in 1..Len(s)}
NamesOf(paths) == [i \in 1..Len(paths) |-> BaseName(paths[i])]
\* what os.walk finds in a folder, given the folder's entries
SubDirs(f, kids) == {q \in kids : IsDir(f, q)}
LinkFiles(f, kids) == {q \in kids : IsFile(f, q) /\ EndsWith(BaseName(q), "link")}
OtherFiles(f, kids) == {q \in kids : IsFile(f, q) /\ ~EndsWith(BaseName(q), "link")}
\* the files of a folder as os.walk lists them: an arbitrary order, of which the
\* model takes two, differing in the order of the .link files
FilesOf(f, kids, rev) ==
    NamesOf(SetToSeq(OtherFiles(f, kids)))
    \o NamesOf(IF rev THEN Reverse(SetToSeq(LinkFiles(f, kids)))
               ELSE SetToSeq(LinkFiles(f, kids)))
Orders(f, kids) == IF Cardinality(LinkFiles(f, kids)) >= 2 THEN BOOLEAN ELSE {FALSE}

\* the answers of the servers: those already given stay, those not asked for are "ok"
Answers(urls, answers) ==
    {oc \in [urls -> Outcomes] : \A u \in urls \cap DOMAIN answers : oc[u] = answers[u]}
Canonical(oc, m) == \A u \in DOMAIN oc : u \notin Range(m.fetched) => oc[u] = "ok"

\* the urls the inspection of a folder may fetch
DeliverUrls(kids) ==
    {FindRemoteOverlayRes(fs, args.device_name, l).url : l \in LinkFiles(fs, kids)}
    \ {""}

\* One iteration of "for root, dirs, files in os.walk(src_path)"
DeliverInspect ==
    /\ pc = "walk"
    /\ args.op = "deliver"
    /\ walkq # <<>>
    /\ LET root == Head(walkq)
           kids == Children(fs, root)
           relpath == RelPath(root, args.src_path)
           subdirs == SetToSeq(SubDirs(fs, kids))
           inspected == \E q \in kids : IsFile(fs, q) /\ EndsWith(BaseName(q), "ipynb")
           popped == IF inspected THEN DictPop(files_to_copy, root) ELSE files_to_copy
           r0 == [m |-> Machine(fs, path_created, ntmp, fetched, net),
                  copy |-> <<>>, move |-> <<>>]
       IN  /\ walkq' = subdirs \o Tail(walkq)
           /\ IF ~inspected
              THEN UNCHANGED <<fs, path_created, ntmp, fetched, net, files_to_copy,
                               files_to_move, skipped, pc, exc>>
              ELSE \E rev \in Orders(fs, kids), oc \in Answers(DeliverUrls(kids), net) :
                     LET r == InspectFiles(InspectDirs(r0, NamesOf(subdirs), root, relpath),
                                           oc, FilesOf(fs, kids, rev), root, relpath)
                     IN  /\ Canonical(oc, r.m)
                         /\ fs' = r.m.fs
                         /\ path_created' = r.m.cache
                         /\ ntmp' = r.m.ntmp
                         /\ fetched' = r.m.fetched
                         /\ net' = r.m.net
                         /\ IF r.m.err = ""
                            THEN /\ files_to_copy' = DictUpdate(popped, r.copy)
                                 /\ files_to_move' = DictUpdate(files_to_move, r.move)
                                 /\ UNCHANGED <<skipped, pc, exc>>
                            ELSE IF r.m.err = "OverlayNotFoundError"
                            THEN /\ files_to_copy' = popped
                                 /\ skipped' = skipped \cup {root}
                                 /\ UNCHANGED <<files_to_move, pc, exc>>
                            ELSE /\ files_to_copy' = popped
                                 /\ pc' = "raised"
                                 /\ exc' = r.m.err
                                 /\ UNCHANGED <<files_to_move, skipped>>
    /\ UNCHANGED <<fs0, env, args, cleanup_list, devices>>
    /\ UNCHANGED others

(***************************************************************************)
(* deliver_notebooks: copying, and rolling the copy back.  A fault is an   *)
(* exception (an OSError, a KeyboardInterrupt) that strikes the at-th copy *)
(* or move, either before it does anything or, when partial, after it has *)
(* made the directories and before it has written the file.                *)
(***************************************************************************)
NoFault == [at |-> 0, partial |-> FALSE]
Faults(ncopy, nmove) ==
    {NoFault} \cup {x \in [at : 1..(ncopy + nmove), partial : BOOLEAN] :
                        x.partial => x.at <= ncopy}

\* one item of the first loop of _copy_and_move_files
CopyItem(x, src, dst, struck, partial) ==
    LET mk == MkPath(x.fs, x.cache, DirName(dst))
        mt == MkPath(x.fs, x.cache, dst)
        c == CopyFile(mk.fs, src, dst)
    IN  IF struck /\ ~partial THEN Res(x.fs, x.cache, "OSError")
        ELSE IF IsFile(x.fs, src)
        THEN IF mk.err # "" THEN mk
             ELSE IF struck THEN Res(mk.fs, mk.cache, "OSError")
             ELSE Res(c.fs, mk.cache, c.err)
        ELSE IF struck
        THEN Res(mt.fs, mt.cache, IF mt.err # "" THEN mt.err ELSE "OSError")
        ELSE CopyTree(x.fs, x.cache, src, dst)

RECURSIVE CopyItems(_, _, _, _)
CopyItems(x, items, i, fault) ==
    IF items = <<>> \/ x.err # "" THEN x
    ELSE CopyItems(CopyItem(x, Head(items)[1], Head(items)[2], fault.at = i,
                            fault.partial),
                   Tail(items), i + 1, fault)

RECURSIVE MoveItems(_, _, _, _)
MoveItems(x, items, i, fault) ==
    IF items = <<>> \/ x.err # "" THEN x
    ELSE LET mv == Move(x.fs, Head(items)[1], Head(items)[2])
             one == IF fault.at = i THEN Res(x.fs, x.cache, "OSError")
                    ELSE Res(mv.fs, x.cache, mv.err)
         IN  MoveItems(one, Tail(items), i + 1, fault)

\* deliver_notebooks._copy_and_move_files
CopyAndMoveFiles(f, cache, to_copy, to_move, fault) ==
    MoveItems(CopyItems(Res(f, cache, ""), to_copy, 1, fault),
              to_move, Len(to_copy) + 1, fault)

RECURSIVE Climb(_, _)
\* while len(os.listdir(os.path.dirname(dst))) == 0: os.rmdir(...); dst = dirname(dst)
\* os.listdir("") raises FileNotFoundError, os.rmdir("/") raises OSError
Climb(f, dst) ==
    LET d == DirName(dst)
    IN  IF d = <<>>
        THEN IF env.relative THEN [fs |-> f, err |-> "FileNotFoundError"]
             ELSE IF Children(f, <<>>) = {} THEN [fs |-> f, err |-> "OSError"]
             ELSE [fs |-> f, err |-> ""]
        ELSE IF Children(f, d) = {} THEN Climb(Remove(f, d), d)
        ELSE [fs |-> f, err |-> ""]

\* one item of the first loop of _roll_back_copy
RollBackCopied(x, dst) ==
    IF IsFile(x.fs, dst)
    THEN LET c == Climb(Remove(x.fs, dst), dst) IN Res(c.fs, x.cache, c.err)
    ELSE IF IsDir(x.fs, dst) THEN RemoveTree(x.fs, x.cache, dst)
    ELSE x

\* one item of the second loop of _roll_back_copy
RollBackMoved(x, dst) ==
    IF IsFile(x.fs, dst)
    THEN LET c == Climb(Remove(x.fs, dst), dst) IN Res(c.fs, x.cache, c.err)
    ELSE x

RECURSIVE RollBackItems(_, _, _)
RollBackItems(x, items, copied) ==
    IF items = <<>> \/ x.err # "" THEN x
    ELSE RollBackItems(IF copied THEN RollBackCopied(x, Head(items)[2])
                       ELSE RollBackMoved(x, Head(items)[2]),
                       Tail(items), copied)

\* deliver_notebooks._roll_back_copy
RollBackCopy(f, cache, to_copy, to_move) ==
    RollBackItems(RollBackItems(Res(f, cache, ""), to_copy, TRUE), to_move, FALSE)

InitPy == <<"__init__", "py">>

\* The end of the walk: the root __init__.py is excluded, then the files are
\* copied and moved
DeliverCopy ==
    /\ pc = "walk"
    /\ args.op = "deliver"
    /\ walkq = <<>>
    /\ LET to_copy == DictPop(files_to_copy, Join(args.src_path, InitPy))
       IN  /\ files_to_copy' = to_copy
           /\ IF to_copy = <<>>
              THEN /\ pc' = "returned"
                   /\ UNCHANGED <<fs, path_created, exc>>
              ELSE \E fault \in Faults(Len(to_copy), Len(files_to_move)) :
                     LET x == CopyAndMoveFiles(fs, path_created, to_copy,
                                               files_to_move, fault)
                     IN  /\ fs' = x.fs
                         /\ path_created' = x.cache
                         /\ exc' = x.err
                         /\ pc' = IF x.err = "" THEN "returned" ELSE "rollback"
    /\ UNCHANGED <<fs0, ntmp, fetched, env, args, walkq, files_to_move, skipped, net,
                   cleanup_list, devices>>
    /\ UNCHANGED others

\* "except (Exception, KeyboardInterrupt) as e": roll back, then raise e
DeliverRollBack ==
    /\ pc = "rollback"
    /\ args.op = "deliver"
    /\ LET x == RollBackCopy(fs, path_created, files_to_copy, files_to_move)
       IN  /\ fs' = x.fs
           /\ path_created' = x.cache
           /\ exc' = IF x.err = "" THEN exc ELSE x.err
           /\ pc' = "raised"
    /\ UNCHANGED <<fs0, ntmp, fetched, env, args, walkq, files_to_copy, files_to_move,
                   skipped, net, cleanup_list, devices>>
    /\ UNCHANGED others


(***************************************************************************)
(* The trees the calls are made on.  The source tree is a chain of Depth   *)
(* folders, src, src/sub, src/sub/sub, ..., each a package (__init__.py),  *)
(* some holding a notebook; one of them, the focus, holds the overlay      *)
(* resources a.bit and b.bit in one of their forms.                        *)
(***************************************************************************)
Empty == [q \in {} |-> DirNode]
NbName == <<"nb", "ipynb">>
KeepName == <<"keep", "txt">>
SrcPath == <<<<"src">>>>
DstPath == <<<<"work">>, <<"out">>>>
PkgName == <<"pkg">>
Folder(k) == SrcPath \o [i \in 1..(k - 1) |-> <<"sub">>]
ResName(r) == <<r, "bit">>

\* a resource of a folder: the plain file, the .d folder and the device files in
\* it, the .link file and what it holds
ResCfgs ==
    {c \in [plain : BOOLEAN, dir : BOOLEAN, local : SUBSET Devices,
            linked : BOOLEAN, kind : LinkKinds] :
        /\ ~c.dir => c.local = {}
        /\ ~c.linked => c.kind = [global |-> FALSE, devs |-> {}]}
Absent == [plain |-> FALSE, dir |-> FALSE, local |-> {}, linked |-> FALSE,
           kind |-> [global |-> FALSE, devs |-> {}]]

FolderTree(k, nb) ==
    (Folder(k) :> DirNode)
    @@ (Join(Folder(k), InitPy) :> FileNode("init" \o ToString(k)))
    @@ (IF nb THEN Join(Folder(k), NbName) :> FileNode("nb" \o ToString(k)) ELSE Empty)

ResTree(folder, r, c) ==
    (IF c.plain THEN Join(folder, ResName(r)) :> FileNode("plain:" \o r) ELSE Empty)
    @@ (IF c.dir THEN Join(folder, Append(ResName(r), "d")) :> DirNode ELSE Empty)
    @@ [q \in {Join(Join(folder, Append(ResName(r), "d")), DeviceFileName(ResName(r), d)) :
                 d \in c.local} |-> FileNode("local:" \o r \o "." \o q[Len(q)][2])]
    @@ (IF c.linked
        THEN Join(folder, Append(ResName(r), "link")) :> FileNode(LinkText(r, c.kind))
        ELSE Empty)

RECURSIVE ChainTree(_, _)
ChainTree(k, nbs) == IF k = 0 THEN Empty ELSE FolderTree(k, nbs[k]) @@ ChainTree(k - 1, nbs)

SourceTree(nbs, focus, cfgA, cfgB) ==
    ChainTree(Depth, nbs) @@ ResTree(Folder(focus), "a", cfgA)
    @@ ResTree(Folder(focus), "b", cfgB) @@ (TmpDir :> DirNode)

\* the destination before the call: missing, an empty directory, or a directory
\* holding a file of its own (keep.txt) and an older nb.ipynb
DstTree(full, state) ==
    IF state = "absent" THEN Empty
    ELSE [q \in {SubSeq(full, 1, i) : i \in 1..Len(full)} |-> DirNode]
         @@ (IF state = "occupied"
             THEN (Join(full, KeepName) :> FileNode("keep"))
                  @@ (Join(full, NbName) :> FileNode("old"))
             ELSE Empty)

DeliverCfgA ==
    {c \in ResCfgs : c.local \subseteq {"d1"} /\ c.kind.devs \subseteq {"d1"}
                     /\ ~(c.kind.global /\ c.kind.devs # {})}
\* b.bit: missing, or a .link file without any entry
DeliverCfgB == {c \in ResCfgs : ~c.plain /\ ~c.dir /\ c.kind = Absent.kind}
Downloadable == [Absent EXCEPT !.linked = TRUE, !.kind = [global |-> FALSE, devs |-> {"d1"}]]
DstEnvs == [relative : BOOLEAN, state : {"absent", "empty", "occupied"}]

\* The calls of the model: every form of the resources delivered to a missing
\* destination, and every destination with the resources of two forms
\* chains with a notebook in the top folder and in all but at most one other
NearlyFull ==
    {nbs \in [1..Depth -> BOOLEAN] :
        nbs[1] /\ \A i, j \in 1..Depth : (~nbs[i] /\ ~nbs[j]) => i = j}
ResolutionCalls ==
    [focus : 1..Depth, nbs : NearlyFull, cfgA : DeliverCfgA,
     cfgB : DeliverCfgB, device : Devices, lookup : BOOLEAN, folder : {FALSE},
     denv : {[relative |-> FALSE, state |-> "absent"]}]
DestinationCalls ==
    [focus : 1..Depth, nbs : NearlyFull, cfgA : {Absent, Downloadable},
     cfgB : {Absent}, device : {"d1"}, lookup : {TRUE}, folder : BOOLEAN,
     denv : DstEnvs]
DeliverCalls == {c \in ResolutionCalls \cup DestinationCalls : c.nbs[c.focus]}

InitDeliver ==
    \E c \in DeliverCalls :
        /\ args = [op |-> "deliver", device_name |-> c.device, src_path |-> SrcPath,
                   dst_path |-> DstPath, name |-> PkgName, folder |-> c.folder,
                   overlays_res_lookup |-> c.lookup]
        /\ env = [relative |-> c.denv.relative, x86 |-> TRUE, devices |-> <<>>]
        /\ fs = SourceTree(c.nbs, c.focus, c.cfgA, c.cfgB)
                @@ DstTree(IF c.folder THEN Join(DstPath, PkgName) ELSE DstPath,
                           c.denv.state)
        /\ fs0 = fs
        /\ path_created = {}
        /\ ntmp = 0
        /\ fetched = <<>>
        /\ net = [u \in {} |-> "ok"]
        /\ pc = "walk"
        /\ exc = ""
        /\ walkq = <<SrcPath>>
        /\ files_to_copy = <<>>
        /\ files_to_move = <<>>
        /\ skipped = {}
        /\ cleanup_list = <<>>
        /\ devices = <<>>
        /\ NoOthers

NextDeliver == DeliverInspect \/ DeliverCopy \/ DeliverRollBack
SpecDeliver == InitDeliver /\ [][NextDeliver]_vars


(***************************************************************************)
(* download_overlays.  The helpers return the set of the machine states    *)
(* they can end in, one for each answer the server may give to a download: *)
(* a url that has answered keeps answering the same during a call.         *)
(***************************************************************************)
DownloadOutcomes(m, url) == IF url \in DOMAIN m.net THEN {m.net[url]} ELSE Outcomes

\* _download_file under each of the answers
DownloadFileAny(m, download_link, path, md5sum) ==
    {DownloadFile(m, (download_link :> o) @@ m.net, download_link, path, md5sum) :
        o \in DownloadOutcomes(m, download_link)}

\* "except Exception as e: if fail: raise e"
Swallow(m, fail) == [m EXCEPT !.err = IF fail THEN @ ELSE ""]

\* download_overlays._resolve_global_overlay_res: the return in the finally block
\* discards the exception when the file is there
ResolveGlobalOverlayRes(m, overlay_res_link, src_path, fail) ==
    LET overlay_res_filename == SplitExt(overlay_res_link)[1]
        overlay_res_download_dict ==
            FindRemoteOverlayRes(m.fs, NoDevice, Join(src_path, overlay_res_link))
        overlay_res_fullpath == Join(src_path, overlay_res_filename)
    IN  IF overlay_res_download_dict = NoEntry THEN {[m |-> m, ret |-> FALSE]}
        ELSE {IF IsFile(d.fs, overlay_res_fullpath)
              THEN [m |-> [d EXCEPT !.err = ""], ret |-> TRUE]
              ELSE [m |-> Swallow(d, fail), ret |-> FALSE] :
                 d \in DownloadFileAny(m, overlay_res_download_dict.url,
                                       overlay_res_fullpath,
                                       overlay_res_download_dict.md5sum)}

\* "finally: if len(os.listdir(overlay_res_download_path)) == 0: os.rmdir(...)";
\* os.listdir of a missing directory raises FileNotFoundError
CloseDownloadPath(m, overlay_res_download_path, fail) ==
    IF ~IsDir(m.fs, overlay_res_download_path)
    THEN [m EXCEPT !.err = "FileNotFoundError"]
    ELSE IF Children(m.fs, overlay_res_download_path) = {}
    THEN Swallow([m EXCEPT !.fs = Remove(@, overlay_res_download_path)], fail)
    ELSE Swallow(m, fail)

\* download_overlays._resolve_devices_overlay_res_helper
ResolveDevicesOverlayResHelper(m, device, src_path, overlay_res_filename, overlay_res_link, overlay_res_fullpath, fail, overlay_res_download_path) ==
    LET overlay_res_src_path ==
            FindLocalOverlayRes(m.fs, device, overlay_res_filename, src_path)
        overlay_res_download_dict ==
            FindRemoteOverlayRes(m.fs, device, Join(src_path, overlay_res_link))
        mk == IF overlay_res_download_path # None
              THEN MkPath(m.fs, m.cache, overlay_res_download_path)
              ELSE Res(m.fs, m.cache, "")
        m1 == [m EXCEPT !.fs = mk.fs, !.cache = mk.cache, !.err = mk.err]
    IN  IF overlay_res_src_path # None THEN {m}
        ELSE IF overlay_res_download_dict = NoEntry
        THEN {[m EXCEPT !.err = IF fail THEN "OverlayNotFoundError" ELSE ""]}
        ELSE IF mk.err # "" THEN {m1}
        ELSE {IF overlay_res_download_path # None
              THEN CloseDownloadPath(d, overlay_res_download_path, fail)
              ELSE Swallow(d, fail) :
                 d \in DownloadFileAny(m1, overlay_res_download_dict.url,
                                       overlay_res_fullpath,
                                       overlay_res_download_dict.md5sum)}

\* overlay_res.ext.d/overlay_res.<device>.ext
DownloadPath(src_path, overlay_res_filename) ==
    Join(src_path, Append(overlay_res_filename, "d"))
DeviceFullPath(src_path, overlay_res_filename, device) ==
    Join(DownloadPath(src_path, overlay_res_filename),
         DeviceFileName(overlay_res_filename, device))

RECURSIVE ForDevices(_, _, _, _, _)
\* "for device in devices" of _resolve_devices_overlay_res
ForDevices(m, overlay_res_link, src_path, devs, fail) ==
    IF devs = <<>> \/ m.err # "" THEN {m}
    ELSE LET overlay_res_filename == SplitExt(overlay_res_link)[1]
         IN  UNION {ForDevices(r, overlay_res_link, src_path, Tail(devs), fail) :
                      r \in ResolveDevicesOverlayResHelper(
                               m, Head(devs), src_path, overlay_res_filename,
                               overlay_res_link,
                               DeviceFullPath(src_path, overlay_res_filename, Head(devs)),
                               fail, DownloadPath(src_path, overlay_res_filename))}

\* download_overlays._resolve_devices_overlay_res: devices[0] of an empty list
\* raises IndexError
ResolveDevicesOverlayRes(m, overlay_res_link, src_path, devs, fail) ==
    IF Len(devs) = 0 /\ ~env.x86 THEN {[m EXCEPT !.err = "IndexError"]}
    ELSE ForDevices(m, overlay_res_link, src_path, devs, fail)

RECURSIVE ForLinks(_, _, _, _, _)
\* "for device, download_link_dict in links.items()": the top-level url and
\* md5sum are items too, and download_link_dict["url"] of a string raises TypeError
ForLinks(m, keys, overlay_res_link, src_path, fail) ==
    IF keys = <<>> \/ m.err # "" THEN {m}
    ELSE LET device == Head(keys)
             overlay_res_filename == SplitExt(overlay_res_link)[1]
             links == JsonLoad(m.fs[Join(src_path, overlay_res_link)].data)
             overlay_res_download_path == DownloadPath(src_path, overlay_res_filename)
             overlay_res_fullpath == DeviceFullPath(src_path, overlay_res_filename, device)
             mk == MkPath(m.fs, m.cache, overlay_res_download_path)
             m1 == [m EXCEPT !.fs = mk.fs, !.cache = mk.cache, !.err = mk.err]
             done ==
                 IF FindLocalOverlayRes(m.fs, device, overlay_res_filename, src_path) # None
                 THEN {m}
                 ELSE IF mk.err # "" THEN {m1}
                 ELSE IF device \in {"url", "md5sum"}
                 THEN {CloseDownloadPath([m1 EXCEPT !.err = "TypeError"],
                                         overlay_res_download_path, fail)}
                 ELSE {CloseDownloadPath(d, overlay_res_download_path, fail) :
                          d \in DownloadFileAny(m1, links[device].url, overlay_res_fullpath,
                                                links[device].md5sum)}
         IN  UNION {ForLinks(r, Tail(keys), overlay_res_link, src_path, fail) : r \in done}

\* download_overlays._resolve_all_overlay_res_from_link
ResolveAllOverlayResFromLink(m, overlay_res_link, src_path, fail) ==
    UNION {IF g.m.err # "" \/ g.ret THEN {g.m}
           ELSE ForLinks(g.m, JsonKeys(g.m.fs[Join(src_path, overlay_res_link)].data),
                         overlay_res_link, src_path, fail) :
              g \in ResolveGlobalOverlayRes(m, overlay_res_link, src_path, fail)}

\* the body of "if f.endswith('.link')" up to the cleanup
ResolveLink(m, f, root) ==
    IF ~args.download_all
    THEN UNION {IF g.m.err # "" \/ g.ret THEN {g.m}
                ELSE ResolveDevicesOverlayRes(g.m, f, root, devices, args.fail_at_lookup) :
                   g \in ResolveGlobalOverlayRes(m, f, root, args.fail_at_lookup)}
    ELSE ResolveAllOverlayResFromLink(m, f, root, args.fail_at_lookup)

RECURSIVE DownloadFilesEager(_, _, _)
\* "for f in files" removing each .link file as soon as it has been resolved
DownloadFilesEager(r, files, root) ==
    IF files = <<>> \/ r.m.err # "" THEN {r}
    ELSE LET f == Head(files)
         IN  IF ~EndsWith(f, "link") THEN DownloadFilesEager(r, Tail(files), root)
             ELSE UNION {DownloadFilesEager(
                            [m |-> IF args.cleanup /\ x.err = ""
                                   THEN [x EXCEPT !.fs = Remove(@, Join(root, f))]
                                   ELSE x,
                             cleanup |-> r.cleanup],
                            Tail(files), root) : x \in ResolveLink(r.m, f, root)}

RECURSIVE DownloadFiles(_, _, _)
\* "for f in files" of download_overlays
DownloadFiles(r, files, root) ==
    IF files = <<>> \/ r.m.err # "" THEN {r}
    ELSE LET f == Head(files)
         IN  IF ~EndsWith(f, "link") THEN DownloadFiles(r, Tail(files), root)
             ELSE UNION {DownloadFiles(
                            [m |-> x,
                             cleanup |-> IF args.cleanup /\ x.err = ""
                                         THEN Append(r.cleanup, Join(root, f))
                                         ELSE r.cleanup],
                            Tail(files), root) : x \in ResolveLink(r.m, f, root)}

\* "devices = detect_devices()": detect_devices turns every failure of xbutil into
\* an empty list and raises nothing
DownloadDetect ==
    /\ pc = "detect"
    /\ args.op = "download"
    /\ devices' = env.devices
    /\ pc' = "walk"
    /\ UNCHANGED <<fs, fs0, path_created, ntmp, fetched, env, args, exc, walkq,
                   files_to_copy, files_to_move, skipped, net, cleanup_list>>
    /\ UNCHANGED others

\* One iteration of "for root, dirs, files in os.walk(path)"
DownloadInspect ==
    /\ pc = "walk"
    /\ args.op = "download"
    /\ walkq # <<>>
    /\ LET root == Head(walkq)
           kids == Children(fs, root)
           subdirs == SetToSeq(SubDirs(fs, kids))
           r0 == [m |-> Machine(fs, path_created, ntmp, fetched, net),
                  cleanup |-> cleanup_list]
       IN  /\ walkq' = subdirs \o Tail(walkq)
           /\ \E rev \in Orders(fs, kids) :
                \E r \in DownloadFiles(r0, FilesOf(fs, kids, rev), root) :
                    /\ fs' = r.m.fs
                    /\ path_created' = r.m.cache
                    /\ ntmp' = r.m.ntmp
                    /\ fetched' = r.m.fetched
                    /\ net' = r.m.net
                    /\ cleanup_list' = r.cleanup
                    /\ exc' = r.m.err
                    /\ pc' = IF r.m.err = "" THEN "walk" ELSE "raised"
    /\ UNCHANGED <<fs0, env, args, files_to_copy, files_to_move, skipped, devices>>
    /\ UNCHANGED others

\* "for f in cleanup_list: os.remove(f)"
DownloadCleanup ==
    /\ pc = "walk"
    /\ args.op = "download"
    /\ walkq = <<>>
    /\ IF \A f \in Range(cleanup_list) : IsFile(fs, f)
       THEN /\ fs' = Del(fs, Range(cleanup_list))
            /\ pc' = "returned"
            /\ UNCHANGED exc
       ELSE /\ fs' = Del(fs, {cleanup_list[i] : i \in
                                 {j \in 1..Len(cleanup_list) :
                                     \A k \in 1..j : IsFile(fs, cleanup_list[k])}})
            /\ pc' = "raised"
            /\ exc' = "FileNotFoundError"
    /\ UNCHANGED <<fs0, path_created, ntmp, fetched, env, args, walkq, files_to_copy,
                   files_to_move, skipped, net, cleanup_list, devices>>
    /\ UNCHANGED others

(***************************************************************************)
(* The calls of download_overlays: on the tree of the folders, a.bit in    *)
(* the top folder in every form, and b.bit.link in the top or the deepest  *)
(* folder.                                                                 *)
(***************************************************************************)
RECURSIVE SeqsUpTo(_, _)
SeqsUpTo(S, n) ==
    IF n = 0 THEN {<<>>}
    ELSE SeqsUpTo(S, n - 1) \cup {Append(q, x) : q \in SeqsUpTo(S, n - 1), x \in S}

\* the machines: an edge board is its only device
Machines ==
    {e \in [relative : {FALSE}, x86 : BOOLEAN, devices : SeqsUpTo(Devices, MaxDevices)] :
        ~e.x86 => Len(e.devices) <= 1}

DownloadCfgA ==
    {c \in ResCfgs : c.linked /\ c.local \subseteq {"d1"}}
PerDevice == [Absent EXCEPT !.linked = TRUE, !.kind = [global |-> FALSE, devs |-> Devices]]
Global == [Absent EXCEPT !.linked = TRUE, !.kind = [global |-> TRUE, devs |-> {}]]

FormCalls ==
    [cfgA : DownloadCfgA, cfgB : {Absent}, fb : {1}, machine : Machines,
     download_all : BOOLEAN, fail_at_lookup : BOOLEAN,
     fail_at_device_detection : {FALSE}, cleanup : {FALSE}]
SeveralCalls ==
    [cfgA : {PerDevice, Global}, cfgB : {Downloadable}, fb : {1, Depth},
     machine : Machines, download_all : BOOLEAN, fail_at_lookup : BOOLEAN,
     fail_at_device_detection : BOOLEAN, cleanup : BOOLEAN]
DownloadCalls == FormCalls \cup SeveralCalls

DownloadTree(cfgA, cfgB, fb) ==
    ChainTree(Depth, [k \in 1..Depth |-> FALSE]) @@ ResTree(Folder(1), "a", cfgA)
    @@ ResTree(Folder(fb), "b", cfgB) @@ (TmpDir :> DirNode)

InitDownload ==
    \E c \in DownloadCalls :
        /\ args = [op |-> "download", path |-> SrcPath, download_all |-> c.download_all,
                   fail_at_lookup |-> c.fail_at_lookup,
                   fail_at_device_detection |-> c.fail_at_device_detection,
                   cleanup |-> c.cleanup]
        /\ env = c.machine
        /\ fs = DownloadTree(c.cfgA, c.cfgB, c.fb)
        /\ fs0 = fs
        /\ path_created = {}
        /\ ntmp = 0
        /\ fetched = <<>>
        /\ net = [u \in {} |-> "ok"]
        /\ pc = "detect"
        /\ exc = ""
        /\ walkq = <<SrcPath>>
        /\ files_to_copy = <<>>
        /\ files_to_move = <<>>
        /\ skipped = {}
        /\ cleanup_list = <<>>
        /\ devices = <<>>
        /\ NoOthers

NextDownload == DownloadDetect \/ DownloadInspect \/ DownloadCleanup
SpecDownload == InitDownload /\ [][NextDownload]_vars


(***************************************************************************)
(* The helpers of setup_utils called on their own.  What a call does not   *)
(* touch is at rest.                                                       *)
(***************************************************************************)
AtRest ==
    /\ env = [relative |-> FALSE, x86 |-> TRUE, devices |-> <<>>]
    /\ walkq = <<>>
    /\ files_to_copy = <<>>
    /\ files_to_move = <<>>
    /\ skipped = {}
    /\ cleanup_list = <<>>
    /\ devices = <<>>
    /\ xsa = <<>>
    /\ logger = <<>>
    /\ notebook = <<>>
    /\ dist = <<>>
walk == <<env, walkq, files_to_copy, files_to_move, skipped, cleanup_list, devices,
          xsa, logger, notebook, dist>>

\* a device name no .link file has an entry for
OtherDevice == "d3"
LinkPath(r) == Join(SrcPath, Append(ResName(r), "link"))

\* _find_remote_overlay_res(device_name, links_json_path) for every .link file and
\* every device name, None included
InitFindRemote ==
    \E r \in Resources, kind \in LinkKinds, d \in Devices \cup {OtherDevice, NoDevice} :
        /\ args = [op |-> "find_remote", device_name |-> d, links_json_path |-> LinkPath(r)]
        /\ fs = (SrcPath :> DirNode) @@ (LinkPath(r) :> FileNode(LinkText(r, kind)))
        /\ fs0 = fs
        /\ path_created = {}
        /\ ntmp = 0
        /\ fetched = <<>>
        /\ net = [u \in {} |-> "ok"]
        /\ pc = "call"
        /\ exc = ""
        /\ ret = <<>>
        /\ AtRest

FindRemoteCall ==
    /\ pc = "call"
    /\ args.op = "find_remote"
    /\ ret' = FindRemoteOverlayRes(fs, args.device_name, args.links_json_path)
    /\ pc' = "returned"
    /\ UNCHANGED <<fs, fs0, path_created, ntmp, fetched, net, args, exc>>
    /\ UNCHANGED walk

NextFindRemote == FindRemoteCall
SpecFindRemote == InitFindRemote /\ [][NextFindRemote]_vars

(***************************************************************************)
(* _download_file with unpack set.  The server holds a zip archive, a gzip *)
(* file or a plain file; python-magic names the type of what has been      *)
(* downloaded, and an archive holds one member.                            *)
(***************************************************************************)
Contents == {"d1", "zip", "gz"}         \* what the url points to
Stale == MD5("stale")                   \* a checksum of other data
MimeOf(data) ==
    IF \E r \in Resources : data = Payload(Url(r, "zip")) THEN "application/zip"
    ELSE IF \E r \in Resources : data = Payload(Url(r, "gz")) THEN "application/gzip"
    ELSE "text/plain"
\* the names of shutil.get_unpack_formats()
UnpackFormats == <<"bztar", "gztar", "tar", "xztar", "zip">>
\* "f[0] in mime_type": the format name occurs in the mime type, "zip" in
\* "application/gzip" as well
Occurs(format, mime_type) ==
    <<format, mime_type>> \in {<<"zip", "application/zip">>, <<"zip", "application/gzip">>}
Member == <<"member", "bit">>
\* os.makedirs
MakeDirs(f, p) == [q \in {SubSeq(p, 1, i) : i \in 1..Len(p)} \ DOMAIN f |-> DirNode] @@ f
\* shutil.unpack_archive(tmp_file, path, format): the member goes under path
UnpackArchive(f, tmp_file, path) ==
    IF MimeOf(f[tmp_file].data) # "application/zip" THEN [fs |-> f, err |-> "ReadError"]
    ELSE IF IsFile(f, path) THEN [fs |-> f, err |-> "FileExistsError"]
    ELSE [fs |-> Put(MakeDirs(f, path), Join(path, Member),
                     FileNode("member:" \o f[tmp_file].data)),
          err |-> ""]

\* deliver_notebooks._download_file(download_link, path, md5sum, unpack)
DownloadFileUnpack(m, oc, download_link, path, md5sum, unpack) ==
    LET tmp_file == TmpFile(m.ntmp + 1)
        data == IF oc[download_link] = "ok" THEN Payload(download_link) ELSE Garbage
        m1 == [m EXCEPT !.fs = Put(m.fs, tmp_file, FileNode("")),
                        !.ntmp = @ + 1,
                        !.fetched = Append(@, download_link),
                        !.net = (download_link :> oc[download_link]) @@ @]
        m2 == [m1 EXCEPT !.fs = Put(m1.fs, tmp_file, FileNode(data))]
        formats == SelectSeq(UnpackFormats, LAMBDA x : Occurs(x, MimeOf(data)))
    IN  IF ~unpack THEN DownloadFile(m, oc, download_link, path, md5sum)
        ELSE IF oc[download_link] = "down" THEN [m1 EXCEPT !.err = "URLError"]
        ELSE IF md5sum # "" /\ md5sum # MD5(data)
        THEN [m2 EXCEPT !.fs = Remove(m2.fs, tmp_file),
                        !.err = "DownloadedFileChecksumError"]
        ELSE IF formats # <<>>
        THEN LET u == UnpackArchive(m2.fs, tmp_file, path)
             IN  [m2 EXCEPT !.fs = u.fs, !.err = u.err]
        ELSE LET c == CopyFile(m2.fs, tmp_file, path)
             IN  [m2 EXCEPT !.fs = c.fs, !.err = c.err]

TargetPath == Join(SrcPath, ResName("a"))
\* the target before the call: its folder missing, the folder there, an older
\* file there, a directory there
Targets == {"nofolder", "folder", "file", "dir"}
TargetTree(t) ==
    (TmpDir :> DirNode)
    @@ (IF t = "nofolder" THEN Empty ELSE SrcPath :> DirNode)
    @@ (IF t = "file" THEN TargetPath :> FileNode("old")
        ELSE IF t = "dir" THEN TargetPath :> DirNode ELSE Empty)

InitDownloadFile ==
    \E r \in Resources, k \in Contents, t \in Targets, unpack \in BOOLEAN :
    \E md5sum \in {"", Entry(r, k).md5sum, Stale} :
        /\ args = [op |-> "download_file", download_link |-> Url(r, k),
                   path |-> TargetPath, md5sum |-> md5sum, unpack |-> unpack]
        /\ fs = TargetTree(t)
        /\ fs0 = fs
        /\ path_created = {}
        /\ ntmp = 0
        /\ fetched = <<>>
        /\ net = [u \in {} |-> "ok"]
        /\ pc = "call"
        /\ exc = ""
        /\ ret = <<>>
        /\ AtRest

DownloadFileCall ==
    /\ pc = "call"
    /\ args.op = "download_file"
    /\ \E o \in Outcomes :
          LET m == DownloadFileUnpack(Machine(fs, path_created, ntmp, fetched, net),
                                      (args.download_link :> o), args.download_link,
                                      args.path, args.md5sum, args.unpack)
          IN  /\ fs' = m.fs
              /\ ntmp' = m.ntmp
              /\ fetched' = m.fetched
              /\ net' = m.net
              /\ exc' = m.err
              /\ pc' = IF m.err = "" THEN "returned" ELSE "raised"
    /\ UNCHANGED <<fs0, path_created, args, ret>>
    /\ UNCHANGED walk

NextDownloadFile == DownloadFileCall
SpecDownloadFile == InitDownloadFile /\ [][NextDownloadFile]_vars

(***************************************************************************)
(* build_utils.xsa_parser: the Xsa archive reader.  A member name is the   *)
(* sequence of its "/"-separated parts ("hw/c.hwh" is <<"hw", "c.hwh">>,   *)
(* the directory entry "hw/" is <<"hw", "">>).  xsa holds the archive's    *)
(* members, what is present in the temporary directory of the object, and, *)
(* as history, how often each member was extracted, which members were     *)
(* asked for and which paths were returned for them.                       *)
(***************************************************************************)
MaxCalls == 3       \* path lookups after the construction
MaxRequest == 2     \* members asked for in one lookup

XsaJson == <<"xsa.json">>
SysdefXml == <<"sysdef.xml">>
XsaXml == <<"xsa.xml">>
CoreMembers == {XsaJson, SysdefXml, XsaXml}
HwDir == <<"hw", "">>
ExtraMembers == {<<"a.bit">>, <<"hw", "c.hwh">>, HwDir}
NoMember == <<"nope.bit">>             \* a name no archive holds
MemberNames == CoreMembers \cup ExtraMembers \cup {NoMember}
\* self.__extracted = tempfile.mkdtemp()
Extracted == <<"tmpdir">>

\* os.path.join(self.__extracted, member)
OsPath(member) == Extracted \o member
\* what a path names in the file system: a trailing "/" does not count
NormPath(p) == IF p # <<>> /\ Last(p) = "" THEN Front(p) ELSE p
\* os.path.exists(os_path)
PathExists(present, os_path) == NormPath(os_path) \in present
\* ZipFile.extract(member, self.__extracted): the member and the directories above it
ZipExtract(present, member) ==
    LET p == NormPath(OsPath(member))
    IN  present \cup {SubSeq(p, 1, i) : i \in 2..Len(p)}

RECURSIVE XsaPathLoopAlways(_, _, _)
\* the loop of __path extracting whether the file is there or not
XsaPathLoopAlways(x, members, os_paths) ==
    IF members = <<>> THEN [x |-> x, os_paths |-> os_paths]
    ELSE LET member == Head(members)
             os_path == OsPath(member)
         IN  XsaPathLoopAlways([x EXCEPT !.present = ZipExtract(@, member),
                                         !.count[member] = @ + 1],
                               Tail(members), Append(os_paths, os_path))

RECURSIVE XsaPathLoop(_, _, _)
\* "for member in members" of Xsa.__path
XsaPathLoop(x, members, os_paths) ==
    IF members = <<>> THEN [x |-> x, os_paths |-> os_paths]
    ELSE LET member == Head(members)
             os_path == OsPath(member)
             x1 == IF ~PathExists(x.present, os_path)
                   THEN [x EXCEPT !.present = ZipExtract(@, member),
                                  !.count[member] = @ + 1]
                   ELSE x
         IN  XsaPathLoop(x1, Tail(members), Append(os_paths, os_path))

\* Xsa.__path(members): a str (single) or a list of member names
XsaPath(x, members, single) ==
    LET missing == Range(members) \ (x.members \cap Range(members))
        asked == [x EXCEPT !.requested = @ \cup Range(members)]
        r == XsaPathLoop(asked, members, <<>>)
        done == [r.x EXCEPT !.returned =
                    [n \in MemberNames |->
                        @[n] \cup {r.os_paths[i] : i \in {j \in 1..Len(members) : members[j] = n}}]]
    IN  IF missing # {} THEN [x |-> asked, ret |-> <<>>, err |-> "RuntimeError"]
        ELSE [x |-> done, ret |-> IF single THEN r.os_paths[1] ELSE r.os_paths, err |-> ""]

\* the archives: the three members the constructor reads, or one of them missing,
\* and any of the others
Archives ==
    {CoreMembers \cup S : S \in SUBSET ExtraMembers}
    \cup {CoreMembers \ {n} : n \in CoreMembers}

InitXsa ==
    \E members \in Archives :
        /\ xsa = [members |-> members, present |-> {},
                  count |-> [n \in MemberNames |-> 0],
                  requested |-> {},
                  returned |-> [n \in MemberNames |-> {}],
                  calls |-> 0]
        /\ args = [op |-> "xsa"]
        /\ pc = "new"
        /\ exc = ""
        /\ ret = <<>>
        /\ fs = Empty /\ fs0 = Empty
        /\ path_created = {} /\ ntmp = 0 /\ fetched = <<>> /\ net = [u \in {} |-> "ok"]
        /\ env = [relative |-> FALSE, x86 |-> TRUE, devices |-> <<>>]
        /\ walkq = <<>> /\ files_to_copy = <<>> /\ files_to_move = <<>>
        /\ skipped = {} /\ cleanup_list = <<>> /\ devices = <<>>
        /\ logger = <<>> /\ notebook = <<>> /\ dist = <<>>

setup == <<fs, fs0, path_created, ntmp, fetched, env, args, walkq, files_to_copy,
           files_to_move, skipped, net, cleanup_list, devices, dist>>

\* Xsa.__init__: the paths of xsa.json, sysdef.xml and xsa.xml, in this order
XsaInit ==
    /\ pc = "new"
    /\ args.op = "xsa"
    /\ LET r1 == XsaPath(xsa, <<XsaJson>>, TRUE)
           r2 == XsaPath(r1.x, <<SysdefXml>>, TRUE)
           r3 == XsaPath(r2.x, <<XsaXml>>, TRUE)
           r == IF r1.err # "" THEN r1 ELSE IF r2.err # "" THEN r2 ELSE r3
       IN  /\ xsa' = r.x
           /\ exc' = r.err
           /\ pc' = IF r.err = "" THEN "ready" ELSE "raised"
    /\ UNCHANGED <<ret, logger, notebook>>
    /\ UNCHANGED setup

\* what the accessors ask __path for: one name, or a list of names
Requests ==
    LET names == ExtraMembers \cup {NoMember, XsaJson}
    IN  [single : {TRUE}, members : {<<n>> : n \in names}]
        \cup [single : {FALSE},
              members : UNION {[1..k -> names] : k \in 0..MaxRequest}]

\* a call of Xsa.__path by one of the accessors; an exception leaves the object
\* in use
XsaPathCall ==
    /\ pc = "ready"
    /\ args.op = "xsa"
    /\ xsa.calls < MaxCalls
    /\ \E q \in Requests :
          LET r == XsaPath(xsa, q.members, q.single)
          IN  /\ xsa' = [r.x EXCEPT !.calls = @ + 1]
              /\ ret' = r.ret
              /\ exc' = r.err
    /\ UNCHANGED <<pc, logger, notebook>>
    /\ UNCHANGED setup

NextXsa == XsaInit \/ XsaPathCall
SpecXsa == InitXsa /\ [][NextXsa]_vars

(***************************************************************************)
(* runtime.logging: get_logger and the records logged through the logger   *)
(* it returns.  logger holds logging's registry of logger objects (name -> *)
(* object), the level and the handlers of the logger named after the       *)
(* module, the level of the root logger, and the last line a handler wrote.*)
(***************************************************************************)
CRITICAL == 50
ERROR == 40
WARNING == 30
INFO == 20
DEBUG == 10
NOTSET == 0
LoggerName == "pynqutils.runtime.logging"

\* "levels" of get_logger
levels ==
    [name \in {"critical", "error", "warning", "info", "debug"} |->
        CASE name = "critical" -> CRITICAL
          [] name = "error" -> ERROR
          [] name = "warning" -> WARNING
          [] name = "info" -> INFO
          [] name = "debug" -> DEBUG]
\* str.lower on the level names of the calls
Lower(s) == CASE s = "DEBUG" -> "debug" [] s = "Error" -> "error" [] OTHER -> s

\* logging.getLogger(name): the logger of the name, made on the first call
GetLoggerObject(registry, name) ==
    IF name \in DOMAIN registry THEN registry
    ELSE (name :> Cardinality(DOMAIN registry) + 1) @@ registry

\* logger.getEffectiveLevel(): the level of the logger, of the root logger when the
\* logger has none
GetEffectiveLevel(l) == IF l.level # NOTSET THEN l.level ELSE l.root

\* "ch = logging.StreamHandler(); ch.setFormatter(_PynqLoggingFormatter())"
StreamHandler == [class |-> "StreamHandler", formatter |-> "_PynqLoggingFormatter"]

\* get_logger adding a handler on every call
AddHandlerAlways(handlers) == Append(handlers, StreamHandler)

\* "if not logger.handlers: ... logger.addHandler(ch)"
AddHandler(handlers) == IF handlers = <<>> THEN <<StreamHandler>> ELSE handlers

\* get_logger setting the level whatever the current level is
SetLevelAlways(own, logger_lvl, level, force_lvl) == level

\* "if level > logger_lvl or force_lvl: logger.setLevel(level)"
SetLevel(own, logger_lvl, level, force_lvl) ==
    IF level > logger_lvl \/ force_lvl THEN level ELSE own

\* _PynqLoggingFormatter.format: FORMATS.get(record.levelno, FORMATS["DEFAULT"])
Format(record) ==
    CASE record.levelno = ERROR -> "ERROR: " \o record.msg
      [] record.levelno = WARNING -> "WARNING: " \o record.msg
      [] record.levelno = DEBUG ->
            "DEBUG: " \o record.module \o ": " \o ToString(record.lineno) \o ": " \o record.msg
      [] OTHER -> record.msg

\* the level argument of a call: a number, or a string (str # "")
LevelArgs ==
    [str : {""}, int : {NOTSET, DEBUG, INFO, WARNING, ERROR, CRITICAL}]
    \cup [str : {"info", "DEBUG", "Error", "critical", "verbose"}, int : {NOTSET}]
\* the levels the application may have given the root logger; WARNING when it
\* has not configured logging
RootLevels == {DEBUG, WARNING, ERROR}
Records == [levelno : {DEBUG, INFO, WARNING, ERROR, CRITICAL}, msg : {"msg"},
            module : {"mod"}, lineno : {7}]

InitLogger ==
    \E root \in RootLevels :
        /\ logger = [registry |-> [n \in {} |-> 0], level |-> NOTSET, handlers |-> <<>>,
                     root |-> root, out |-> ""]
        /\ args = [op |-> "logger", call |-> "", level |-> [str |-> "", int |-> NOTSET],
                   force_lvl |-> FALSE, record |-> <<>>]
        /\ pc = "idle"
        /\ exc = ""
        /\ ret = <<>>
        /\ xsa = <<>> /\ notebook = <<>> /\ dist = <<>>
        /\ fs = Empty /\ fs0 = Empty
        /\ path_created = {} /\ ntmp = 0 /\ fetched = <<>> /\ net = [u \in {} |-> "ok"]
        /\ env = [relative |-> FALSE, x86 |-> TRUE, devices |-> <<>>]
        /\ walkq = <<>> /\ files_to_copy = <<>> /\ files_to_move = <<>>
        /\ skipped = {} /\ cleanup_list = <<>> /\ devices = <<>>

\* get_logger(level, force_lvl)
GetLogger ==
    /\ args.op = "logger"
    /\ \E a \in LevelArgs, force_lvl \in BOOLEAN :
          LET registry == GetLoggerObject(logger.registry, LoggerName)
              handlers == AddHandler(logger.handlers)
              logger_lvl == GetEffectiveLevel(logger)
              known == a.str = "" \/ Lower(a.str) \in DOMAIN levels
              level == IF a.str = "" THEN a.int ELSE levels[Lower(a.str)]
          IN  /\ args' = [args EXCEPT !.call = "get_logger", !.level = a,
                                      !.force_lvl = force_lvl, !.record = <<>>]
              /\ IF known
                 THEN /\ logger' = [logger EXCEPT
                                       !.registry = registry, !.handlers = handlers,
                                       !.level = SetLevel(@, logger_lvl, level, force_lvl)]
                      /\ ret' = registry[LoggerName]
                      /\ exc' = ""
                 ELSE /\ logger' = [logger EXCEPT !.registry = registry,
                                                  !.handlers = handlers]
                      /\ ret' = <<>>
                      /\ exc' = "KeyError"
    /\ UNCHANGED <<pc, xsa, notebook, dist>>
    /\ UNCHANGED <<fs, fs0, path_created, ntmp, fetched, env, walkq, files_to_copy,
                   files_to_move, skipped, net, cleanup_list, devices>>

\* logger.debug / info / warning / error / critical (msg) on the logger get_logger
\* returned: a record the logger is enabled for goes to its handlers
LoggerLog ==
    /\ args.op = "logger"
    /\ LoggerName \in DOMAIN logger.registry
    /\ \E record \in Records :
          /\ args' = [args EXCEPT !.call = "log", !.record = record]
          /\ logger' = [logger EXCEPT !.out =
                IF record.levelno >= GetEffectiveLevel(logger) /\ logger.handlers # <<>>
                THEN Format(record) ELSE ""]
    /\ UNCHANGED <<pc, exc, ret, xsa, notebook, dist>>
    /\ UNCHANGED <<fs, fs0, path_created, ntmp, fetched, env, walkq, files_to_copy,
                   files_to_move, skipped, net, cleanup_list, devices>>

NextLogger == GetLogger \/ LoggerLog
SpecLogger == InitLogger /\ [][NextLogger]_vars

(***************************************************************************)
(* build_utils.boardstore.resolve_version.  The keys of version_dict are   *)
(* the names of the version folders, "major.minor"; a key is modelled by   *)
(* the pair <<major, minor>> and its text by the sequence of its           *)
(* characters' code points.                                                *)
(***************************************************************************)
MaxMajor == 2       \* major numbers 1..MaxMajor
MaxMinor == 10      \* minor numbers 0..MaxMinor
MaxKeys == 2        \* version folders of a board

RECURSIVE Decimal(_)
\* str(n): the characters of a number
Decimal(n) == IF n < 10 THEN <<48 + n>> ELSE Decimal(n \div 10) \o <<48 + (n % 10)>>
\* the text of a key: "major.minor"
VersionText(v) == Decimal(v[1]) \o <<46>> \o Decimal(v[2])
RECURSIVE StrLess(_, _)
\* a < b for two str
StrLess(a, b) ==
    IF a = <<>> THEN b # <<>>
    ELSE IF b = <<>> THEN FALSE
    ELSE IF Head(a) # Head(b) THEN Head(a) < Head(b)
    ELSE StrLess(Tail(a), Tail(b))
RECURSIVE SortStr(_)
\* versions.sort() of a list of str without duplicates
SortStr(S) ==
    IF S = {} THEN <<>>
    ELSE LET least == CHOOSE v \in S :
                         \A w \in S \ {v} : StrLess(VersionText(v), VersionText(w))
         IN  <<least>> \o SortStr(S \ {least})

\* resolve_version(version_dict): (latest_version, versions); IndexError when the
\* dict is empty
ResolveVersion(version_dict) ==
    LET versions == SortStr(DOMAIN version_dict)
    IN  IF versions = <<>> THEN [ret |-> <<>>, err |-> "IndexError"]
        ELSE [ret |-> [latest_version |-> versions[Len(versions)], versions |-> versions],
              err |-> ""]

VersionKeys == (1..MaxMajor) \X (0..MaxMinor)
\* resolve_paths: the board.xml of each version folder
BoardXml(v) == <<"board", v, "board.xml">>
RECURSIVE KeySets(_)
\* the sets of at most k keys
KeySets(k) ==
    IF k = 0 THEN {{}}
    ELSE LET smaller == KeySets(k - 1)
         IN  smaller \cup {S \cup {v} : S \in smaller, v \in VersionKeys}
VersionDicts == {[v \in S |-> BoardXml(v)] : S \in KeySets(MaxKeys)}

InitResolveVersion ==
    \E d \in VersionDicts :
        /\ args = [op |-> "resolve_version", version_dict |-> d]
        /\ pc = "call"
        /\ exc = ""
        /\ ret = <<>>
        /\ fs = Empty /\ fs0 = Empty
        /\ path_created = {} /\ ntmp = 0 /\ fetched = <<>> /\ net = [u \in {} |-> "ok"]
        /\ AtRest

ResolveVersionCall ==
    /\ pc = "call"
    /\ args.op = "resolve_version"
    /\ LET r == ResolveVersion(args.version_dict)
       IN  /\ ret' = r.ret
           /\ exc' = r.err
           /\ pc' = IF r.err = "" THEN "returned" ELSE "raised"
    /\ UNCHANGED <<fs, fs0, path_created, ntmp, fetched, net, args>>
    /\ UNCHANGED walk

NextResolveVersion == ResolveVersionCall
SpecResolveVersion == InitResolveVersion /\ [][NextResolveVersion]_vars

(***************************************************************************)
(* runtime.run_notebook.  A cell is [cell_type, source, outputs]; the      *)
(* source of a code cell is empty, a statement, an expression with its     *)
(* value, code that raises, or the code _create_code makes.  A Python      *)
(* value is [t, v], its type and its text; a JSON value is [j, v].  The    *)
(* kernel numbers the cells it runs (execution_count) and keeps the value  *)
(* of the k-th cell it ran in the global _k; the notebook client does not  *)
(* send a cell without source to the kernel.  The copy of root_path into   *)
(* the temporary directory does not touch the cells and is left out.       *)
(***************************************************************************)
MaxCells == 3       \* cells of the notebook

PyNone == [t |-> "NoneType", v |-> ""]
PyValues == {[t |-> "int", v |-> "1"], [t |-> "tuple", v |-> "1,2"],
             [t |-> "object", v |-> "<Obj>"]}
\* json.dumps(o, default=_default_repr) of one element
ToJson(o) ==
    CASE o.t = "NoneType" -> [j |-> "null", v |-> ""]
      [] o.t = "int" -> [j |-> "number", v |-> o.v]
      [] o.t = "str" -> [j |-> "string", v |-> o.v]
      [] o.t \in {"tuple", "list"} -> [j |-> "array", v |-> o.v]
      [] OTHER -> [j |-> "string", v |-> o.v]
\* json.loads of one element
FromJson(x) ==
    CASE x.j = "null" -> PyNone
      [] x.j = "number" -> [t |-> "int", v |-> x.v]
      [] x.j = "string" -> [t |-> "str", v |-> x.v]
      [] OTHER -> [t |-> "list", v |-> x.v]
\* json.dumps of a list / json.loads of its text
JsonDumps(objects) == [i \in 1..Len(objects) |-> ToJson(objects[i])]
JsonLoads(text) == [i \in 1..Len(text) |-> FromJson(text[i])]

UnderName(i) == "_" \o ToString(i)
Source(kind, value, names) == [kind |-> kind, value |-> value, names |-> names]
Cell(cell_type, source) == [cell_type |-> cell_type, source |-> source, outputs |-> <<>>]
\* _create_code(num): print(json.dumps([_resolve_global('_1'), ...]))
CreateCode(num) == Source("print", PyNone, [i \in 1..num |-> UnderName(i)])
\* _resolve_global(name)
ResolveGlobal(g, name) == IF name \in DOMAIN g THEN g[name] ELSE PyNone

CellKinds ==
    {Cell("markdown", Source("text", PyNone, <<>>))}
    \cup {Cell("code", Source(k, PyNone, <<>>)) : k \in {"empty", "statement", "raise"}}
    \cup {Cell("code", Source("expression", o, <<>>)) : o \in PyValues}
IsCode(c) == c.cell_type = "code"

\* ExecutePreprocessor on the cell x.index: a cell that is no code or has no source
\* is skipped; the others get the next execution count
ExecuteCell(x) ==
    LET i == x.index
        c == x.cells[i]
        count == x.kernel.execution_count + 1
        g == x.kernel.globals
        ran == [x EXCEPT !.index = i + 1, !.kernel.execution_count = count]
    IN  IF ~IsCode(c) \/ c.source.kind = "empty" THEN [x |-> [x EXCEPT !.index = i + 1], err |-> ""]
        ELSE IF c.source.kind = "raise" THEN [x |-> ran, err |-> "CellExecutionError"]
        ELSE IF c.source.kind = "statement" THEN [x |-> ran, err |-> ""]
        ELSE IF c.source.kind = "expression"
        THEN [x |-> [ran EXCEPT
                        !.kernel.globals = (UnderName(count) :> c.source.value) @@ g,
                        !.cells[i].outputs = <<[output_type |-> "execute_result",
                                                text |-> <<>>, data |-> c.source.value]>>],
              err |-> ""]
        ELSE [x |-> [ran EXCEPT
                        !.cells[i].outputs =
                            <<[output_type |-> "stream",
                               text |-> JsonDumps([k \in 1..Len(c.source.names) |->
                                                      ResolveGlobal(g, c.source.names[k])]),
                               data |-> PyNone]>>],
              err |-> ""]

\* NotebookResult.__init__: outputs and the attributes _1, _2, ...
NotebookResult(cells) ==
    LET code == SelectSeq(cells, IsCode)
        outputs == [i \in 1..Len(code) |-> code[i].outputs]
        objects == JsonLoads(outputs[Len(outputs)][1].text)
    IN  [outputs |-> outputs,
         attrs |-> [name \in {UnderName(i) : i \in 1..Len(objects)} |->
                       objects[CHOOSE i \in 1..Len(objects) : UnderName(i) = name]]]

NotebookFiles == UNION {[1..k -> CellKinds] : k \in 0..MaxCells}

InitRunNotebook ==
    \E cells \in NotebookFiles :
        /\ args = [op |-> "run_notebook", cells |-> cells]
        /\ notebook = [cells |-> cells, index |-> 1,
                       kernel |-> [execution_count |-> 0, globals |-> [n \in {} |-> PyNone]]]
        /\ pc = "call"
        /\ exc = ""
        /\ ret = <<>>
        /\ xsa = <<>> /\ logger = <<>> /\ dist = <<>>
        /\ fs = Empty /\ fs0 = Empty
        /\ path_created = {} /\ ntmp = 0 /\ fetched = <<>> /\ net = [u \in {} |-> "ok"]
        /\ env = [relative |-> FALSE, x86 |-> TRUE, devices |-> <<>>]
        /\ walkq = <<>> /\ files_to_copy = <<>> /\ files_to_move = <<>>
        /\ skipped = {} /\ cleanup_list = <<>> /\ devices = <<>>

\* run_notebook up to ep.preprocess: the notebook is read and the cell of
\* _create_code(len(code_cells)) is appended
RunNotebookAppend ==
    /\ pc = "call"
    /\ args.op = "run_notebook"
    /\ LET code_cells == SelectSeq(notebook.cells, IsCode)
       IN  notebook' = [notebook EXCEPT
                           !.cells = Append(@, Cell("code", CreateCode(Len(code_cells))))]
    /\ pc' = "preprocess"
    /\ UNCHANGED <<exc, ret, xsa, logger>>
    /\ UNCHANGED setup

\* ep.preprocess(nb, ...): the next cell
RunNotebookCell ==
    /\ pc = "preprocess"
    /\ args.op = "run_notebook"
    /\ notebook.index <= Len(notebook.cells)
    /\ LET r == ExecuteCell(notebook)
       IN  /\ notebook' = r.x
           /\ exc' = r.err
           /\ pc' = IF r.err = "" THEN "preprocess" ELSE "raised"
    /\ UNCHANGED <<ret, xsa, logger>>
    /\ UNCHANGED setup

\* "return NotebookResult(nb)"
RunNotebookResult ==
    /\ pc = "preprocess"
    /\ args.op = "run_notebook"
    /\ notebook.index > Len(notebook.cells)
    /\ ret' = NotebookResult(notebook.cells)
    /\ pc' = "returned"
    /\ UNCHANGED <<exc, notebook, xsa, logger>>
    /\ UNCHANGED setup

NextRunNotebook == RunNotebookAppend \/ RunNotebookCell \/ RunNotebookResult
SpecRunNotebook == InitRunNotebook /\ [][NextRunNotebook]_vars

(***************************************************************************)
(* The setuptools commands of setup_utils/download_overlays.py: build_py   *)
(* and du_download_overlays, run by the Distribution of a setup script.    *)
(* A package name is the sequence of its dot-separated components          *)
(* ("pkg.sub" is <<"pkg", "sub">>).  The Distribution runs the commands of *)
(* the command line in order, and run_command runs a command at most once: *)
(* it returns at once for a command that is in have_run.                   *)
(***************************************************************************)
MaxPackages == 2    \* packages of the distribution

BuildLib == <<<<"build">>, <<"lib">>>>
PackageDir(package) == [i \in 1..Len(package) |-> <<package[i]>>]

\* build_py.data_files: (package, src_dir, build_dir, filenames) of every package
DataFiles(f, packages) ==
    [i \in 1..Len(packages) |->
        [package |-> packages[i],
         src_dir |-> PackageDir(packages[i]),
         build_dir |-> BuildLib \o PackageDir(packages[i]),
         filenames |-> SetToSeq({q \in Children(f, PackageDir(packages[i])) : IsFile(f, q)})]]

\* every package is taken for a top-level one
AnyPackage(package) == TRUE

\* '"." not in package'
IsTopLevel(package) == Len(package) = 1

RECURSIVE BuildFiles(_, _, _)
\* the files of one package: mkpath(os.path.dirname(target)), copy_file(src, target)
BuildFiles(m, build_dir, filenames) ==
    IF filenames = <<>> \/ m.err # "" THEN m
    ELSE LET d == MkPath(m.fs, m.cache, build_dir)
             c == CopyFile(d.fs, Head(filenames), Join(build_dir, BaseName(Head(filenames))))
         IN  IF d.err # "" THEN d
             ELSE BuildFiles(Res(c.fs, d.cache, c.err), build_dir, Tail(filenames))

RECURSIVE StdBuildPy(_, _)
\* the run of setuptools' build_py: the modules and the package data of every
\* package are copied from the package's directory to its build directory
StdBuildPy(m, data_files) ==
    IF data_files = <<>> \/ m.err # "" THEN m
    ELSE StdBuildPy(BuildFiles(m, Head(data_files).build_dir, Head(data_files).filenames),
                    Tail(data_files))

IsSetup == DOMAIN dist # {}
\* the command the Distribution is to run next
Command == IF dist.commands = <<>> THEN "" ELSE Head(dist.commands)

\* Distribution.run_command of a command that has run: nothing is done
DistSkip ==
    /\ IsSetup
    /\ pc = "command"
    /\ Command \in dist.have_run
    /\ dist' = [dist EXCEPT !.commands = Tail(@)]
    /\ UNCHANGED <<fs, fs0, path_created, ntmp, fetched, env, args, pc, exc, walkq,
                   files_to_copy, files_to_move, skipped, net, cleanup_list, devices,
                   ret, xsa, logger, notebook>>

\* build_py.run up to the return of run_command("download_overlays") or to
\* the first step of du_download_overlays.run
BuildPyRun ==
    /\ IsSetup
    /\ pc = "command"
    /\ Command = "build_py"
    /\ Command \notin dist.have_run
    /\ LET r == StdBuildPy(Res(fs, path_created, ""), DataFiles(fs, dist.packages))
       IN  /\ fs' = r.fs
           /\ path_created' = r.cache
           /\ exc' = r.err
           /\ IF r.err # ""
              THEN /\ pc' = "raised"
                   /\ UNCHANGED dist
              ELSE IF "download_overlays" \in dist.have_run
              THEN /\ pc' = "command"
                   /\ dist' = [dist EXCEPT !.log = Append(@, "build_py"),
                                           !.have_run = @ \cup {"build_py"},
                                           !.commands = Tail(@)]
              ELSE /\ pc' = "loop"
                   /\ dist' = [dist EXCEPT !.log = Append(Append(@, "build_py"),
                                                          "download_overlays"),
                                           !.running = <<"build_py">>,
                                           !.todo = DataFiles(r.fs, dist.packages)]
    /\ UNCHANGED <<fs0, ntmp, fetched, env, args, walkq, files_to_copy, files_to_move,
                   skipped, net, cleanup_list, devices, ret, xsa, logger, notebook>>

\* du_download_overlays.run as a command of the command line, up to the loop
DuDownloadOverlaysRun ==
    /\ IsSetup
    /\ pc = "command"
    /\ Command = "download_overlays"
    /\ Command \notin dist.have_run
    /\ dist' = [dist EXCEPT !.log = Append(@, "download_overlays"),
                            !.running = <<>>,
                            !.todo = DataFiles(fs, dist.packages)]
    /\ pc' = "loop"
    /\ UNCHANGED <<fs, fs0, path_created, ntmp, fetched, env, args, exc, walkq,
                   files_to_copy, files_to_move, skipped, net, cleanup_list, devices,
                   ret, xsa, logger, notebook>>

\* One iteration of "for package, _, build_dir, _ in cmd.data_files", up to the
\* call of download_overlays; after the last one the command has run, and so
\* has the build_py that ran it
DuDownloadOverlaysLoop ==
    /\ IsSetup
    /\ pc = "loop" \/ (pc = "returned" /\ args.op = "download")
    /\ IF dist.todo = <<>>
       THEN /\ dist' = [dist EXCEPT !.have_run = @ \cup {"download_overlays"}
                                                   \cup Range(dist.running),
                                    !.running = <<>>,
                                    !.commands = Tail(@)]
            /\ pc' = "command"
            /\ UNCHANGED <<fs0, args, walkq, cleanup_list, devices>>
       ELSE LET package == Head(dist.todo).package
                build_dir == Head(dist.todo).build_dir
                call == [op |-> "download", path |-> build_dir,
                         download_all |-> dist.download_all,
                         fail_at_lookup |-> dist.force_fail,
                         fail_at_device_detection |-> FALSE, cleanup |-> FALSE]
            IN  IF IsTopLevel(package)
                THEN /\ dist' = [dist EXCEPT !.todo = Tail(@),
                                             !.calls = Append(@, call)]
                     /\ args' = call
                     /\ fs0' = fs
                     /\ walkq' = <<build_dir>>
                     /\ cleanup_list' = <<>>
                     /\ devices' = <<>>
                     /\ pc' = "detect"
                ELSE /\ dist' = [dist EXCEPT !.todo = Tail(@)]
                     /\ pc' = "loop"
                     /\ UNCHANGED <<fs0, args, walkq, cleanup_list, devices>>
    /\ UNCHANGED <<fs, path_created, ntmp, fetched, env, exc, files_to_copy,
                   files_to_move, skipped, net, ret, xsa, logger, notebook>>

(***************************************************************************)
(* The setup scripts: up to MaxPackages of the packages pkg, pkg.sub and   *)
(* other, in any order; pkg holds a.bit.link in one of its forms, pkg.sub  *)
(* and other hold b.bit.link; the command line names build_py, the command *)
(* download_overlays or both, and gives the options of download_overlays.  *)
(***************************************************************************)
PackageNames == {<<"pkg">>, <<"pkg", "sub">>, <<"other">>}
PackageLists ==
    {q \in SeqsUpTo(PackageNames, MaxPackages) :
        q # <<>> /\ \A i, j \in 1..Len(q) : q[i] = q[j] => i = j}
CommandLines ==
    {<<"build_py">>, <<"download_overlays">>, <<"build_py", "download_overlays">>,
     <<"download_overlays", "build_py">>}
SetupMachines ==
    {e \in Machines : e.devices \in {<<>>, <<"d1">>}}

PackageTree(package, r, c) ==
    (PackageDir(package) :> DirNode)
    @@ (Join(PackageDir(package), InitPy) :> FileNode("init"))
    @@ ResTree(PackageDir(package), r, c)

SetupCalls ==
    [packages : PackageLists, cfg : {Absent, PerDevice, Global},
     script_args : CommandLines, machine : SetupMachines,
     download_all : BOOLEAN, force_fail : BOOLEAN]

InitSetup ==
    \E c \in SetupCalls :
        /\ args = [op |-> "setup", script_args |-> c.script_args]
        /\ dist = [commands |-> c.script_args, have_run |-> {}, running |-> <<>>,
                   packages |-> c.packages, download_all |-> c.download_all,
                   force_fail |-> c.force_fail, todo |-> <<>>, calls |-> <<>>,
                   log |-> <<>>]
        /\ env = c.machine
        /\ fs = PackageTree(<<"pkg">>, "a", c.cfg)
                @@ PackageTree(<<"pkg", "sub">>, "b", Global)
                @@ PackageTree(<<"other">>, "b", Global) @@ (TmpDir :> DirNode)
        /\ fs0 = fs
        /\ path_created = {}
        /\ ntmp = 0
        /\ fetched = <<>>
        /\ net = [u \in {} |-> "ok"]
        /\ pc = "command"
        /\ exc = ""
        /\ walkq = <<>>
        /\ files_to_copy = <<>>
        /\ files_to_move = <<>>
        /\ skipped = {}
        /\ cleanup_list = <<>>
        /\ devices = <<>>
        /\ ret = <<>> /\ xsa = <<>> /\ logger = <<>> /\ notebook = <<>>

NextSetup ==
    \/ DistSkip
    \/ BuildPyRun
    \/ DuDownloadOverlaysRun
    \/ DuDownloadOverlaysLoop
    \/ DownloadDetect
    \/ DownloadInspect
    \/ DownloadCleanup
SpecSetup == InitSetup /\ [][NextSetup]_vars

(***************************************************************************)
(* Vocabulary of the properties of deliver_notebooks.                      *)
(***************************************************************************)
Returned == pc = "returned"
IsDeliver == args.op = "deliver"

\* the folders of the source tree that deliver_notebooks inspects
InspectedFolders ==
    {DirName(q) : q \in {n \in DOMAIN fs0 : /\ IsFile(fs0, n) /\ EndsWith(BaseName(n), "ipynb")
                                           /\ IsPrefix(args.src_path, n)}}
\* the notebooks of a folder
Notebooks(folder) ==
    {q \in Children(fs0, folder) : IsFile(fs0, q) /\ EndsWith(BaseName(q), "ipynb")}
\* the names overlay_res.ext of a folder that have a .link file or a .d folder
DynamicNames(folder) ==
    {SplitExt(BaseName(q))[1] : q \in
        {c \in Children(fs0, folder) :
            \/ IsFile(fs0, c) /\ EndsWith(BaseName(c), "link")
            \/ IsDir(fs0, c) /\ EndsWith(BaseName(c), "d")}}
HasLink(folder, x) == IsFile(fs0, Join(folder, Append(x, "link")))
HasPlain(folder, x) == IsFile(fs0, Join(folder, x))
DeviceFile(folder, x, device) ==
    Join(Join(folder, Append(x, "d")), DeviceFileName(x, device))
HasDeviceFile(folder, x) == IsFile(fs0, DeviceFile(folder, x, args.device_name))
\* the download dict of x's .link file for the target device
RemoteOf(folder, x) ==
    IF HasLink(folder, x)
    THEN FindRemoteOverlayRes(fs0, args.device_name, Join(folder, Append(x, "link")))
    ELSE NoEntry
\* <destination>/<relpath>/name
DstOf(folder, name) == Join(DstFullPath \o RelPath(folder, args.src_path), name)
\* the destination holds, under the name, the data
DeliveredAs(folder, name, data) ==
    IsFile(fs, DstOf(folder, name)) /\ fs[DstOf(folder, name)].data = data
\* no url of a .link file of resource x has been asked for
UrlsOf(x) == {Url(x[1], k) : k \in Devices \cup {"global"}}
NotFetched(x) == UrlsOf(x) \cap Range(fetched) = {}
Lookup == args.overlays_res_lookup
Plain(folder, x) == fs0[Join(folder, x)].data
Local(folder, x) == fs0[DeviceFile(folder, x, args.device_name)].data

(***************************************************************************)
(* C1: a resource whose plain file overlay_res.ext lies next to the        *)
(* notebooks is delivered from that file, and no download is attempted for *)
(* it, whatever .d folder and .link file exist -- once the call has        *)
(* returned, and unless the folder was skipped because another resource of *)
(* it could not be resolved.                                               *)
(***************************************************************************)
C1_PlainFirst ==
    IsDeliver =>
        \A folder \in InspectedFolders : \A x \in DynamicNames(folder) :
            HasPlain(folder, x) =>
                /\ NotFetched(x)
                /\ (Returned /\ folder \notin skipped)
                       => DeliveredAs(folder, x, Plain(folder, x))

\* C1 as stated: delivered also when the folder was skipped
C1_AsStated ==
    IsDeliver =>
        \A folder \in InspectedFolders : \A x \in DynamicNames(folder) :
            HasPlain(folder, x) =>
                /\ NotFetched(x)
                /\ Returned => DeliveredAs(folder, x, Plain(folder, x))

\* a call with lookup returned; the plain file, a device file and a link entry
\* were all there, and the plain file's data is at the destination
C1_Witness ==
    /\ IsDeliver /\ Returned /\ Lookup
    /\ \E folder \in InspectedFolders : \E x \in DynamicNames(folder) :
        /\ HasPlain(folder, x) /\ HasDeviceFile(folder, x)
        /\ RemoteOf(folder, x) # NoEntry
        /\ DeliveredAs(folder, x, Plain(folder, x))

(***************************************************************************)
(* C2: without the plain file, a resource whose file                       *)
(* overlay_res.ext.d/overlay_res.<device_name>.ext exists is delivered     *)
(* from that file under the name overlay_res.ext, without a download --    *)
(* when overlays_res_lookup is set, once the call has returned, and unless *)
(* the folder was skipped.                                                 *)
(***************************************************************************)
C2_DeviceFileSecond ==
    IsDeliver =>
        \A folder \in InspectedFolders : \A x \in DynamicNames(folder) :
            (~HasPlain(folder, x) /\ HasDeviceFile(folder, x)) =>
                /\ NotFetched(x)
                /\ (Returned /\ Lookup /\ folder \notin skipped)
                       => DeliveredAs(folder, x, Local(folder, x))

\* C2 as stated: whatever overlays_res_lookup is, skipped or not
C2_AsStated ==
    IsDeliver =>
        \A folder \in InspectedFolders : \A x \in DynamicNames(folder) :
            (~HasPlain(folder, x) /\ HasDeviceFile(folder, x)) =>
                /\ NotFetched(x)
                /\ Returned => DeliveredAs(folder, x, Local(folder, x))

\* a call returned that delivered the device file although a link entry existed
C2_Witness ==
    /\ IsDeliver /\ Returned /\ Lookup
    /\ \E folder \in InspectedFolders : \E x \in DynamicNames(folder) :
        /\ ~HasPlain(folder, x) /\ HasDeviceFile(folder, x)
        /\ RemoteOf(folder, x) # NoEntry
        /\ DeliveredAs(folder, x, Local(folder, x))

(***************************************************************************)
(* C3: without a local file, a resource whose .link file has an entry for  *)
(* the device is downloaded from the entry's url, its checksum is the      *)
(* entry's md5sum, and it lies at the destination as overlay_res.ext next  *)
(* to the folder's notebooks -- when overlays_res_lookup is set, once the  *)
(* call has returned, and unless the folder was skipped (which it is when  *)
(* the checksum of the download does not match).                           *)
(***************************************************************************)
NoLocal(folder, x) == ~HasPlain(folder, x) /\ ~HasDeviceFile(folder, x)
NotebooksDelivered(folder) ==
    \A nb \in Notebooks(folder) : DeliveredAs(folder, BaseName(nb), fs0[nb].data)
Downloaded(folder, x) ==
    /\ RemoteOf(folder, x).url \in Range(fetched)
    /\ DeliveredAs(folder, x, Payload(RemoteOf(folder, x).url))
    /\ MD5(fs[DstOf(folder, x)].data) = RemoteOf(folder, x).md5sum
    /\ NotebooksDelivered(folder)

C3_DownloadThird ==
    IsDeliver =>
        \A folder \in InspectedFolders : \A x \in DynamicNames(folder) :
            (/\ NoLocal(folder, x) /\ RemoteOf(folder, x) # NoEntry
             /\ Returned /\ Lookup /\ folder \notin skipped) => Downloaded(folder, x)

\* C3 as stated: whatever overlays_res_lookup is and whatever the server answers
C3_AsStated ==
    IsDeliver =>
        \A folder \in InspectedFolders : \A x \in DynamicNames(folder) :
            (NoLocal(folder, x) /\ RemoteOf(folder, x) # NoEntry /\ Returned)
                => Downloaded(folder, x)

\* a call returned that delivered a download
C3_Witness ==
    /\ IsDeliver /\ Returned /\ Lookup
    /\ \E folder \in InspectedFolders : \E x \in DynamicNames(folder) :
        /\ NoLocal(folder, x) /\ RemoteOf(folder, x) # NoEntry
        /\ folder \notin skipped
        /\ Downloaded(folder, x)

(***************************************************************************)
(* C4: when a resource of a folder cannot be resolved the folder is        *)
(* skipped: the delivery is not aborted by it and none of the folder's     *)
(* notebooks is at the destination after the call.                         *)
(***************************************************************************)
C4_SkippedNotDelivered ==
    IsDeliver =>
        /\ exc # "OverlayNotFoundError"
        /\ Returned =>
              \A folder \in skipped : \A nb \in Notebooks(folder) :
                  ~DeliveredAs(folder, BaseName(nb), fs0[nb].data)

(***************************************************************************)
(* C5: when the copy phase raises, every destination path of the delivery  *)
(* is removed again and the exception the copy phase raised is the one the *)
(* call ends with.                                                         *)
(***************************************************************************)
C5_RollBackReraises ==
    [][(IsDeliver /\ pc = "rollback") =>
          /\ exc' = exc
          /\ \A dst \in Values(files_to_copy) \cup Values(files_to_move) :
                ~Exists(fs', dst)]_vars

(***************************************************************************)
(* C6: with overlays_res_lookup unset nothing is resolved: no download, no *)
(* folder skipped, every other file and folder of an inspected folder is   *)
(* delivered as it is, and no .link file and no .d folder of an inspected  *)
(* folder is at the destination.                                           *)
(***************************************************************************)
Dynamic(f, q) ==
    \/ IsFile(f, q) /\ EndsWith(BaseName(q), "link")
    \/ IsDir(f, q) /\ EndsWith(BaseName(q), "d")
C6_NoLookup ==
    (IsDeliver /\ ~Lookup) =>
        /\ fetched = <<>>
        /\ skipped = {}
        /\ Returned =>
              \A folder \in InspectedFolders : \A q \in Children(fs0, folder) :
                  /\ (IsFile(fs0, q) /\ ~Dynamic(fs0, q) /\ q # Join(args.src_path, InitPy))
                        => DeliveredAs(folder, BaseName(q), fs0[q].data)
                  /\ (IsDir(fs0, q) /\ ~Dynamic(fs0, q) /\ BaseName(q) # <<"__pycache__">>)
                        => IsDir(fs, DstOf(folder, BaseName(q)))
                  /\ Dynamic(fs0, q) => ~Exists(fs, DstOf(folder, BaseName(q)))

(***************************************************************************)
(* download_overlays: the .link files of the tree when the call was made.  *)
(***************************************************************************)
IsDownload == args.op = "download"
Ended == pc \in {"returned", "raised"}
LinkPaths == {p \in DOMAIN fs0 : IsFile(fs0, p) /\ EndsWith(BaseName(p), "link")}
LinkedName(l) == SplitExt(BaseName(l))[1]
LinksOf(l) == JsonLoad(fs0[l].data)
PerDeviceLink(l) == ~("url" \in DOMAIN LinksOf(l) /\ "md5sum" \in DOMAIN LinksOf(l))
\* the link has an entry for the device and nothing local serves the device
ToDownload(l, d) ==
    /\ d \in DOMAIN LinksOf(l)
    /\ FindLocalOverlayRes(fs0, d, LinkedName(l), DirName(l)) = None
Answered(url, o) == url \in DOMAIN net /\ net[url] = o

(***************************************************************************)
(* C7: on an edge board (not x86) with one detected device, the download   *)
(* of a per-device entry is stored as overlay_res.ext next to the .link    *)
(* file and not inside overlay_res.ext.d.                                  *)
(***************************************************************************)
C7_EdgeSingleDevice ==
    (IsDownload /\ ~args.download_all /\ ~env.x86 /\ Len(env.devices) = 1 /\ Returned) =>
        \A l \in LinkPaths :
            LET d == env.devices[1]
                x == LinkedName(l)
            IN  (PerDeviceLink(l) /\ ToDownload(l, d) /\ Answered(LinksOf(l)[d].url, "ok")) =>
                    /\ IsFile(fs, Join(DirName(l), x))
                    /\ fs[Join(DirName(l), x)].data = Payload(LinksOf(l)[d].url)
                    /\ ~Exists(fs, DeviceFullPath(DirName(l), x, d))

(***************************************************************************)
(* C8: a .link file whose target overlay_res.ext exists next to it is not  *)
(* resolved: nothing is downloaded for it and the file stays as it was.    *)
(***************************************************************************)
C8_ExistingTargetSkipped ==
    IsDownload =>
        \A l \in LinkPaths :
            LET target == Join(DirName(l), LinkedName(l))
            IN  IsFile(fs0, target) =>
                    /\ NotFetched(LinkedName(l))
                    /\ IsFile(fs, target) /\ fs[target] = fs0[target]

(***************************************************************************)
(* C9: for every detected device with an entry in a per-device .link file  *)
(* and no local file, the file downloaded for it lies, when the call ends, *)
(* at overlay_res.ext.d/overlay_res.<device_name>.ext, the path            *)
(* _find_local_overlay_res returns for the device.                         *)
(***************************************************************************)
C9_PlacedWhereLookedUp ==
    (IsDownload /\ ~args.download_all /\ Ended /\ (env.x86 \/ Len(env.devices) # 1)) =>
        \A l \in LinkPaths : \A d \in Range(devices) :
            (PerDeviceLink(l) /\ ToDownload(l, d) /\ Answered(LinksOf(l)[d].url, "ok")) =>
                LET placed == DeviceFullPath(DirName(l), LinkedName(l), d)
                IN  /\ FindLocalOverlayRes(fs, d, LinkedName(l), DirName(l)) = placed
                    /\ fs[placed].data = Payload(LinksOf(l)[d].url)

(***************************************************************************)
(* C10: with download_all, and fail_at_lookup unset, a download has been   *)
(* attempted, when the call ends, for every entry of every per-device      *)
(* .link file that nothing local serves, whatever was detected.            *)
(***************************************************************************)
C10_DownloadAll ==
    (IsDownload /\ args.download_all /\ ~args.fail_at_lookup /\ Ended) =>
        \A l \in LinkPaths : \A d \in Devices :
            (PerDeviceLink(l) /\ ToDownload(l, d)) => LinksOf(l)[d].url \in Range(fetched)


(***************************************************************************)
(* C11: with fail_at_lookup set, download_overlays does not return         *)
(* normally when a lookup failed: when a download it made failed or did    *)
(* not match its checksum, or when a detected device has neither a local   *)
(* file nor an entry in some .link file.                                   *)
(***************************************************************************)
LookupFailed(l, d) ==
    /\ FindLocalOverlayRes(fs0, d, LinkedName(l), DirName(l)) = None
    /\ FindRemoteOverlayRes(fs0, d, l) = NoEntry
C11_FailAtLookupRaises ==
    (IsDownload /\ args.fail_at_lookup /\ Returned) =>
        /\ \A u \in DOMAIN net : net[u] = "ok"
        /\ ~args.download_all =>
              \A l \in LinkPaths : \A d \in Range(devices) : ~LookupFailed(l, d)


(***************************************************************************)
(* C12: when no device is detected, download_overlays with                 *)
(* fail_at_device_detection set raises before any .link file is resolved,  *)
(* and with fail_at_device_detection unset it goes on with an empty list   *)
(* of devices.                                                             *)
(***************************************************************************)
C12_FailAtDeviceDetection ==
    (IsDownload /\ env.devices = <<>>) =>
        /\ args.fail_at_device_detection =>
              /\ pc \in {"detect", "raised"}
              /\ fetched = <<>> /\ fs = fs0
        /\ (~args.fail_at_device_detection /\ pc # "detect") => devices = <<>>


(***************************************************************************)
(* C13: with cleanup set the .link files are removed as the last step: as  *)
(* long as the call has not returned every .link file of the tree is       *)
(* there, and once it has returned normally every .link file has been      *)
(* through resolution and none is left under path.  With cleanup unset no  *)
(* .link file is ever removed.  A .link file is never changed.             *)
(***************************************************************************)
LinksLeft == {p \in DOMAIN fs : IsFile(fs, p) /\ EndsWith(BaseName(p), "link")}
C13_CleanupLast ==
    IsDownload =>
        /\ (~args.cleanup \/ ~Returned) => LinksLeft = LinkPaths
        /\ (args.cleanup /\ Returned) =>
              (LinksLeft = {} /\ Range(cleanup_list) = LinkPaths)
        /\ \A l \in LinksLeft : l \in LinkPaths /\ fs[l] = fs0[l]

\* a call with cleanup returned after it resolved two .link files, in two folders,
\* with a download
C13_Witness ==
    /\ IsDownload /\ args.cleanup /\ Returned
    /\ \E l1, l2 \in LinkPaths : DirName(l1) # DirName(l2)
    /\ fetched # <<>>
    /\ LinksLeft = {}


(***************************************************************************)
(* C14: _find_remote_overlay_res returns the url and md5sum of the top     *)
(* level of the .link file when it has them, whatever the device name and  *)
(* whatever entries the devices have; otherwise the entry of device_name;  *)
(* and None when device_name has no entry.                                 *)
(***************************************************************************)
C14_FindRemote ==
    (args.op = "find_remote" /\ Returned) =>
        LET link == LinkOf(fs0[args.links_json_path].data)
            r == link[1]
            kind == link[2]
        IN  /\ kind.global => ret = Entry(r, "global")
            /\ (~kind.global /\ args.device_name \in kind.devs) =>
                  ret = Entry(r, args.device_name)
            /\ (~kind.global /\ args.device_name \notin kind.devs) => ret = NoEntry

\* the top level was returned though the device had an entry of its own
C14_Witness ==
    /\ args.op = "find_remote" /\ Returned
    /\ LET kind == LinkOf(fs0[args.links_json_path].data)[2]
       IN  kind.global /\ args.device_name \in kind.devs
    /\ ret.url = Url(LinkOf(fs0[args.links_json_path].data)[1], "global")

(***************************************************************************)
(* C15: _download_file fetches, verifies, then places.  When md5sum is     *)
(* given and is not the MD5 of what was downloaded, the call raises        *)
(* DownloadedFileChecksumError, the temporary file is gone and nothing at  *)
(* or under the target path has changed; so whenever md5sum is given and   *)
(* something was copied or unpacked at the target, the checksums agreed.   *)
(***************************************************************************)
IsDownloadFile == args.op = "download_file"
Received == IF net[args.download_link] = "ok" THEN Payload(args.download_link) ELSE Garbage
Placed == {p \in DOMAIN fs : ~IsPrefix(TmpDir, p)} # {p \in DOMAIN fs0 : ~IsPrefix(TmpDir, p)}
             \/ \E p \in DOMAIN fs0 : ~IsPrefix(TmpDir, p) /\ fs[p] # fs0[p]
C15_VerifyBeforePlacing ==
    (IsDownloadFile /\ pc # "call" /\ args.md5sum # "" /\ net[args.download_link] # "down") =>
        /\ args.md5sum # MD5(Received) =>
              /\ pc = "raised" /\ exc = "DownloadedFileChecksumError"
              /\ ~Exists(fs, TmpFile(1))
              /\ ~Placed
        /\ Placed => args.md5sum = MD5(Received)

\* a corrupted download of a call with unpack set was refused
C15_Witness ==
    /\ IsDownloadFile /\ pc = "raised" /\ args.md5sum = MD5(Payload(args.download_link))
    /\ net[args.download_link] = "corrupt" /\ args.unpack
    /\ exc = "DownloadedFileChecksumError" /\ ~Placed

(***************************************************************************)
(* C16: the Xsa reader extracts lazily and caches.  A member is extracted  *)
(* only when a path lookup asked for it; a member whose file is there is   *)
(* not extracted again, so that no member is extracted twice; and every    *)
(* lookup of a member returns the same path.                               *)
(***************************************************************************)
IsXsa == args.op = "xsa"
C16_LazyCached ==
    IsXsa =>
        \A n \in MemberNames :
            /\ xsa.count[n] > 0 => n \in xsa.requested /\ n \in xsa.members
            /\ xsa.count[n] <= 1
            /\ Cardinality(xsa.returned[n]) <= 1
            /\ xsa.returned[n] # {} => PathExists(xsa.present, OsPath(n))

\* a member was looked up in two calls (the last one returned its path again) and
\* was extracted once
C16_Witness ==
    /\ IsXsa /\ xsa.calls >= 2 /\ exc = ""
    /\ xsa.count[<<"a.bit">>] = 1
    /\ ret = OsPath(<<"a.bit">>)
    /\ xsa.count[HwDir] = 0 /\ xsa.returned[HwDir] # {}

(***************************************************************************)
(* C17: a call of get_logger without force_lvl leaves the level alone when *)
(* the current level is higher than the level asked for, and never lowers  *)
(* the level, neither the logger's own nor its effective one; a call with  *)
(* force_lvl sets the level to the level asked for in any case.            *)
(***************************************************************************)
IsLogger == args.op = "logger"
Asked(a) == IF a.str = "" THEN a.int ELSE levels[Lower(a.str)]
C17_LevelStep ==
    (IsLogger /\ args'.call = "get_logger" /\ exc' = "") =>
        /\ (~args'.force_lvl /\ GetEffectiveLevel(logger) > Asked(args'.level)) =>
              logger'.level = logger.level
        /\ ~args'.force_lvl =>
              /\ logger'.level >= logger.level
              /\ GetEffectiveLevel(logger') >= GetEffectiveLevel(logger)
        /\ args'.force_lvl => logger'.level = Asked(args'.level)
C17_LevelNeverDecreases == [][C17_LevelStep]_vars

\* after a call without force_lvl that asked for less than the current level: the
\* level was raised before and has stayed
C17_Witness ==
    /\ IsLogger /\ args.call = "get_logger" /\ ~args.force_lvl /\ exc = ""
    /\ args.level.str = "DEBUG"
    /\ logger.level = ERROR /\ logger.root = WARNING

(***************************************************************************)
(* C20: the logger is a singleton with one handler.  Once get_logger has   *)
(* been called there is one logger object, every call that returned has    *)
(* returned it, and it has exactly one handler, a stream handler with the  *)
(* formatter of the module.  The formatter prefixes ERROR and WARNING      *)
(* records with their severity, prefixes DEBUG records with "DEBUG: ", the *)
(* module and the line number, and prints the other records as the bare    *)
(* message.                                                                *)
(***************************************************************************)
Singleton ==
    /\ LoggerName \in DOMAIN logger.registry =>
          /\ DOMAIN logger.registry = {LoggerName}
          /\ logger.registry[LoggerName] = 1
          /\ logger.handlers = <<StreamHandler>>
    /\ (args.call = "get_logger" /\ exc = "") => ret = 1
Printed == IsLogger /\ args.call = "log" /\ logger.out # ""
C20_SingletonOneHandler ==
    IsLogger =>
        /\ Singleton
        /\ Printed =>
              LET record == args.record
              IN  logger.out =
                    IF record.levelno \in {ERROR, WARNING}
                    THEN (IF record.levelno = ERROR THEN "ERROR" ELSE "WARNING")
                         \o ": " \o record.msg
                    ELSE IF record.levelno = DEBUG
                    THEN "DEBUG: " \o record.module \o ": " \o ToString(record.lineno)
                         \o ": " \o record.msg
                    ELSE record.msg

\* C20 as stated: every record that is neither ERROR nor WARNING is printed as the
\* bare message
C20_AsStated ==
    IsLogger =>
        /\ Singleton
        /\ Printed =>
              LET record == args.record
              IN  logger.out =
                    IF record.levelno \in {ERROR, WARNING}
                    THEN (IF record.levelno = ERROR THEN "ERROR" ELSE "WARNING")
                         \o ": " \o record.msg
                    ELSE record.msg

\* after several calls of get_logger the one handler printed a DEBUG record
C20_Witness ==
    /\ Printed /\ args.record.levelno = DEBUG
    /\ logger.level = DEBUG /\ logger.root = WARNING
    /\ Len(logger.handlers) = 1 /\ exc = ""
    /\ logger.out = "DEBUG: mod: 7: msg"

(***************************************************************************)
(* C18: for every non-empty version_dict, resolve_version returns the      *)
(* greatest key under the ordering of version numbers (the dot-separated   *)
(* components compared as numbers) and the list of all the keys.           *)
(***************************************************************************)
VersionLeq(v, w) == v[1] < w[1] \/ (v[1] = w[1] /\ v[2] <= w[2])
C18_LatestVersion ==
    (args.op = "resolve_version" /\ pc # "call" /\ DOMAIN args.version_dict # {}) =>
        /\ Returned
        /\ Range(ret.versions) = DOMAIN args.version_dict
        /\ Len(ret.versions) = Cardinality(DOMAIN args.version_dict)
        /\ ret.latest_version \in DOMAIN args.version_dict
        /\ \A v \in DOMAIN args.version_dict : VersionLeq(v, ret.latest_version)

(***************************************************************************)
(* C19: for a notebook with n code cells run_notebook appends one code     *)
(* cell that prints the JSON list of _1 .. _n, and the NotebookResult it   *)
(* returns has exactly the n attributes _1 .. _n, _i holding what the      *)
(* JSON list carries of the output object of the i-th code cell, None when *)
(* that cell returned no object.                                           *)
(***************************************************************************)
CodeCells == SelectSeq(args.cells, IsCode)
OutputObject(c) == IF c.source.kind = "expression" THEN c.source.value ELSE PyNone
C19_OneAttributePerCell ==
    (args.op = "run_notebook" /\ Returned) =>
        LET n == Len(CodeCells)
        IN  /\ notebook.cells[Len(notebook.cells)].source = CreateCode(n)
            /\ SubSeq(notebook.cells, 1, Len(args.cells))
                  = [i \in 1..Len(args.cells) |->
                        [args.cells[i] EXCEPT !.outputs = notebook.cells[i].outputs]]
            /\ DOMAIN ret.attrs = {UnderName(i) : i \in 1..n}
            /\ \A i \in 1..n :
                  ret.attrs[UnderName(i)] = FromJson(ToJson(OutputObject(CodeCells[i])))

(***************************************************************************)
(* Vocabulary of the properties of the setuptools commands.                *)
(***************************************************************************)
\* "earlier" is in the log, and "later" after it
Before(earlier, later) ==
    \E i, j \in 1..Len(dist.log) :
        i < j /\ dist.log[i] = earlier /\ dist.log[j] = later
\* the calls of download_overlays the data_files of build_py ask for, in order
TopLevelCalls ==
    LET tops == SelectSeq(dist.packages, LAMBDA package : Len(package) = 1)
    IN  [i \in 1..Len(tops) |->
            [op |-> "download", path |-> BuildLib \o <<<<tops[i][1]>>>>,
             download_all |-> dist.download_all, fail_at_lookup |-> dist.force_fail,
             fail_at_device_detection |-> FALSE, cleanup |-> FALSE]]
\* du_download_overlays.run has made the calls the data_files ask for so far,
\* and all of them once it has returned
CallsAsAsked ==
    /\ Len(dist.calls) <= Len(TopLevelCalls)
    /\ dist.calls = SubSeq(TopLevelCalls, 1, Len(dist.calls))
    /\ "download_overlays" \in dist.have_run => dist.calls = TopLevelCalls
    /\ (pc \in {"detect", "walk"} /\ dist.calls # <<>>) =>
            args = dist.calls[Len(dist.calls)]

(***************************************************************************)
(* C21: build_py.run runs the standard build_py first and then             *)
(* run_command("download_overlays"), which runs the command                *)
(* download_overlays unless that command has already run in this run of    *)
(* the setup script: a build_py that has run has run the standard build_py,*)
(* and the command download_overlays after it when the command had not run *)
(* before it; while the command runs for build_py the standard build_py is *)
(* done.  du_download_overlays.run calls download_overlays on the build    *)
(* directory of each top-level package of build_py's data_files, once and  *)
(* in their order, with download_all and fail_at_lookup its download-all   *)
(* and force-fail options, and never for a sub-package; a call that raises *)
(* ends the run.                                                           *)
(***************************************************************************)
C21_BuildPyThenDownloadOverlays ==
    IsSetup =>
        /\ "build_py" \in dist.have_run =>
                \/ Before("build_py", "download_overlays")
                \/ /\ Before("download_overlays", "build_py")
                   /\ "download_overlays" \in dist.have_run
        /\ dist.running = <<"build_py">> =>
                /\ Len(dist.log) >= 2
                /\ SubSeq(dist.log, Len(dist.log) - 1, Len(dist.log))
                       = <<"build_py", "download_overlays">>
        /\ Cardinality({i \in 1..Len(dist.log) : dist.log[i] = "download_overlays"}) <= 1
        /\ CallsAsAsked

(***************************************************************************)
(* C21 as stated: every build_py that has run has run the standard         *)
(* build_py and the command download_overlays after it, and the command    *)
(* has called download_overlays once for each top-level package.           *)
(***************************************************************************)
C21_AsStated ==
    IsSetup =>
        /\ "build_py" \in dist.have_run => Before("build_py", "download_overlays")
        /\ CallsAsAsked

\* build_py has run on a distribution with a sub-package first and a top-level
\* package after it: the standard build_py, then the command download_overlays,
\* which called download_overlays once, with both options set
C21_Witness ==
    /\ IsSetup
    /\ "build_py" \in dist.have_run
    /\ dist.log = <<"build_py", "download_overlays">>
    /\ dist.packages = <<<<"pkg", "sub">>, <<"pkg">>>>
    /\ Len(dist.calls) = 1
    /\ dist.calls[1].path = BuildLib \o <<<<"pkg">>>>
    /\ dist.calls[1].download_all /\ ~dist.calls[1].fail_at_lookup
    /\ dist.download_all /\ ~dist.force_fail
    /\ IsFile(fs, Join(BuildLib \o <<<<"pkg">>>>, ResName("a")))

(***************************************************************************)
(* C22: the roll-back of deliver_notebooks removes only what the failed    *)
(* delivery created: every file and directory that existed when            *)
(* deliver_notebooks was called exists with the same content after the     *)
(* roll-back, and the destination directory and the directories above it   *)
(* that are there when the roll-back starts are there when it ends.        *)
(***************************************************************************)
C22_RollBackKeepsTheRest ==
    [][(IsDeliver /\ pc = "rollback") =>
          /\ \A p \in DOMAIN fs0 : p \in DOMAIN fs' /\ fs'[p] = fs0[p]
          /\ \A i \in 1..Len(DstFullPath) :
                IsDir(fs, SubSeq(DstFullPath, 1, i)) =>
                    IsDir(fs', SubSeq(DstFullPath, 1, i))]_vars

=============================================================================
